---- MODULE Spec2Model ----
(***************************************************************************)
(* Disku: the directory-tree scanners (macOS bulk scanner with its         *)
(* readdir+stat fallback, the generic jwalk scanner with build_tree, the   *)
(* NTFS MFT scanner), the dispatcher that chooses between them, and the    *)
(* FileNode size tree with its two recursive sorts.                        *)
(*                                                                         *)
(* The FileNode tree is held as a heap of nodes: tree[k] is one FileNode,  *)
(* its children field the sequence of the keys of its child nodes.        *)
(***************************************************************************)
EXTENDS Integers, Sequences, FiniteSets, TLC

\* ---------------------------------------------------------------- bounds
\* Number of entries below the scanned root in a filesystem snapshot.
MaxEntries == 3
\* Records of the MFT besides the root record.
MaxMftRecs == 2
\* Directories of the deep chain below the depth cap.
DeepExtra == 1
\* Longest index path handed to get_directory_view.
MaxNavLen == 2

\* Invocations of start_scan in one run of the desktop app.
MaxScans == 2

\* ------------------------------------------------------ program constants
MAX_DEPTH == 512
ROOT_RECORD == 5
ATTR_CMN_NAME == 1
ATTR_CMN_OBJTYPE == 8
ATTR_CMN_ERROR == 536870912
ATTR_FILE_DATALENGTH == 512
VDIR == 2
ATTR_SET_SIZE == 20
BULK_BUF_SIZE == 256 * 1024

\* ------------------------------------------------------------- snapshots
\* A snapshot is a table of entries 0..n; entry 0 is the scanned root and the
\* listing order of a directory is increasing entry number.  A path is
\* identified with the number of the entry it names.
\*   kind  : "file" | "dir"
\*   fault : what the operating system answers for the entry
\*     "none"       everything succeeds
\*     "bad"        (file) its attributes cannot be read: its bulk record
\*                  carries a nonzero error code, stat/metadata fails
\*     "bulkfail"   (dir) open(O_DIRECTORY)/getattrlistbulk fails, readdir works
\*     "unreadable" (dir) neither open nor readdir works
\*     "otherdev"   (dir) st_dev differs from the root's
\* At most one entry below the root is faulty; the root's fault is independent.
\* Logical file lengths: equal and unequal lengths both occur.
FileSizes == {1, 2}

Entry(p, k, s, f) == [parent |-> p, kind |-> k, size |-> s, fault |-> f]

\* Entry names: one ASCII letter each, by entry number: "b", "A", "a", "C", "d".
NameTable == <<98, 65, 97, 67, 100>>
NameOf(i) == <<NameTable[((i - 1) % Len(NameTable)) + 1]>>

\* The fault-free snapshots with exactly n entries below the root.
RECURSIVE Shapes(_)
Shapes(n) ==
    IF n = 0 THEN { (0 :> Entry(0, "dir", 0, "none")) }
    ELSE { f @@ (n :> e) :
             f \in Shapes(n - 1),
             e \in { Entry(p, "file", s, "none") : p \in 0..(n - 1), s \in FileSizes }
                   \cup { Entry(p, "dir", 0, "none") : p \in 0..(n - 1) } }

WellFormed(f) ==
    \A i \in DOMAIN f : i > 0 => f[f[i].parent].kind = "dir"

\* Every way to make at most one entry below the root faulty.
WithFault(f, fileFaults, dirFaults) ==
    {f} \cup UNION { { [f EXCEPT ![i].fault = x] :
                         x \in IF f[i].kind = "file" THEN fileFaults ELSE dirFaults } :
                     i \in DOMAIN f \ {0} }

\* The snapshots: nothing is modelled below a root that cannot be listed.
SnapshotsOf(fileFaults, dirFaults, rootFaults) ==
    LET shapes == { h \in UNION { Shapes(n) : n \in 0..MaxEntries } : WellFormed(h) }
        listed == UNION { WithFault(f, fileFaults, dirFaults) : f \in shapes }
    IN { [g EXCEPT ![0].fault = r] : g \in listed, r \in rootFaults \ {"unreadable"} }
       \cup { [g EXCEPT ![0].fault = r] : g \in Shapes(0), r \in rootFaults \cap {"unreadable"} }

\* What the bulk scanner can tell apart, and what the generic walker can.
BulkSnapshots == SnapshotsOf({"bad"}, {"bulkfail", "unreadable", "otherdev"},
                             {"none", "bulkfail", "unreadable"})
GenericSnapshots == SnapshotsOf({"bad"}, {"unreadable"}, {"none", "unreadable"})

\* A chain root/d1/d2/.. of MAX_DEPTH + DeepExtra directories, each holding the
\* next, with a one-byte file in each of the last three directories that lie
\* at depth MAX_DEPTH - 1 and below.  f is the fault of the directory at depth
\* MAX_DEPTH - 1.
ChainLen == MAX_DEPTH + DeepExtra
DeepSnapshot(f) ==
    [i \in 0..(ChainLen + DeepExtra + 2) |->
        IF i = 0 THEN Entry(0, "dir", 0, "none")
        ELSE IF i <= ChainLen
             THEN Entry(i - 1, "dir", 0, IF i = MAX_DEPTH - 1 THEN f ELSE "none")
             ELSE Entry(MAX_DEPTH - 2 + (i - ChainLen), "file", 1, "none")]
DeepSnapshots == { DeepSnapshot(f) : f \in {"none", "bulkfail"} }

\* The entries of directory d in listing order.
Listing(f, d) ==
    SelectSeq([i \in 1..(Cardinality(DOMAIN f) - 1) |-> i], LAMBDA i : f[i].parent = d)


\* ------------------------------------------------------------------ state
VARIABLES
    platform,       \* the build: "macos" | "windows" | "other"  (cfg(target_os))
    scan_path,      \* the requested root path, a string of ASCII codes
    fs,             \* the filesystem snapshot under the scanned root
    mft_ok,         \* the volume can be opened and its MFT loaded
    mft,            \* the volume's MFT: record number -> file record
    pc,             \* position of the scan thread
    files_scanned,  \* ScanProgress counters
    dirs_scanned,
    errors,
    current_path,   \* ScanProgress.current_path: <<>> (empty) or <<path>>
    cp_locked,      \* current_path's mutex is held by a reader
    root_dev,       \* scan_bulk's root_dev: <<>> (None) or <<dev>>
    task,           \* per directory: the scan_dir_recursive call on it
    ret,            \* per directory: the Vec<FileNode> its call returned
    tree,           \* the FileNode heap: key -> node
    result,         \* <<>> or <<key of the root node>>
    sortQueue,      \* pending recursive sort calls (node keys)
    sortMode,       \* "size" | "name": which sort is running
    walkStack,      \* the entries the WalkDir iterator has yet to yield
    flat,           \* scan's flat Vec<(path, is_dir, size)>
    entries,        \* scan_mft's Vec<Option<MftEntry>>: <<>> (None) or <<entry>>
    reader,         \* the progress reporter thread: position and loaded values
    rdb,            \* a read_dir_bulk call followed system call by system call
    view,           \* a get_directory_view call and what it returned
    bench,          \* bench_scan --compare: <<>> or <<the first scanner's result>>
    rec,            \* a bulk record handed to the parsers and what they made of it
    app,            \* the TUI App: nav_path, list selection, sort flag
    svc             \* start_scan invocations of the desktop app and the stored result

vars == <<platform, scan_path, fs, mft_ok, mft, pc, files_scanned, dirs_scanned,
          errors, current_path, cp_locked, root_dev, task, ret, tree, result,
          sortQueue, sortMode, walkStack, flat, entries, reader, rdb, view, bench,
          rec, app, svc>>

inputVars == <<platform, scan_path, fs, mft_ok, mft>>
walkVars == <<walkStack, flat>>

progressVars == <<files_scanned, dirs_scanned, errors, current_path>>
bulkVars == <<root_dev, task, ret>>
sortVars == <<sortQueue, sortMode>>
\* What the scanners themselves never touch.
\* The parser harness, the TUI and the desktop service.
extraVars == <<rec, app, svc>>
auxVars == <<reader, rdb, view, bench, extraVars>>

\* ------------------------------------------------------------- FileNode
new_file(name, size) == [name |-> name, size |-> size, is_dir |-> FALSE, children |-> <<>>]
new_dir(name) == [name |-> name, size |-> 0, is_dir |-> TRUE, children |-> <<>>]

RECURSIVE SumSizes(_, _)
\* children.iter().map(|c| c.size).sum()
SumSizes(t, ch) ==
    IF ch = <<>> THEN 0 ELSE t[Head(ch)].size + SumSizes(t, Tail(ch))

\* child_node = new_dir(name); child_node.children = children; child_node.size = sum
\* A directory node whose size is left at new_dir's 0 (no aggregation).
DirNodeUnsummed(t, name, ch) == [new_dir(name) EXCEPT !.children = ch]

DirNode(t, name, ch) ==
    [new_dir(name) EXCEPT !.children = ch, !.size = SumSizes(t, ch)]

Range(s) == { s[i] : i \in DOMAIN s }

\* to_lowercase on an ASCII name
ToLower(name) == [i \in DOMAIN name |-> IF name[i] >= 65 /\ name[i] <= 90 THEN name[i] + 32 ELSE name[i]]

\* a.cmp(b) on strings is Less or Equal (lexicographic by code unit)
StrLeq(a, b) ==
    \/ \E k \in 1..Len(a) :
          /\ k <= Len(b)
          /\ \A j \in 1..(k - 1) : a[j] = b[j]
          /\ a[k] < b[k]
    \/ /\ Len(a) <= Len(b)
       /\ \A j \in 1..Len(a) : a[j] = b[j]

\* The size comparator with its operands exchanged: smallest first.
InOrderAscending(t, mode, a, b) ==
    IF mode = "size" THEN t[a].size <= t[b].size
    ELSE StrLeq(ToLower(t[a].name), ToLower(t[b].name))

\* The comparator of the running sort puts a not after b.
InOrder(t, mode, a, b) ==
    IF mode = "size" THEN t[a].size >= t[b].size
    ELSE StrLeq(ToLower(t[a].name), ToLower(t[b].name))

\* A reordering that puts keys in order without being a permutation: it may
\* repeat one sibling and lose another.
SortNotInjective(t, mode, ch) ==
    { p \in [1..Len(ch) -> Range(ch)] :
        \A i \in 1..(Len(ch) - 1) : InOrder(t, mode, p[i], p[i + 1]) }

\* sort_unstable_by: any arrangement of the children that the comparator
\* accepts; the order of equal elements is unspecified.
SortUnstable(t, mode, ch) ==
    { p \in [1..Len(ch) -> Range(ch)] :
        /\ \A i, j \in 1..Len(ch) : i # j => p[i] # p[j]
        /\ \A i \in 1..(Len(ch) - 1) : InOrder(t, mode, p[i], p[i + 1]) }

\* ------------------------------------------------------------------ paths
\* Path strings are sequences of ASCII codes: 47 "/", 92 "\", 58 ":".
IsSeparator(c) == c = 47 \/ (platform = "windows" /\ c = 92)

\* Path::file_name: the final component, <<>> (None) when the path ends at a
\* root or prefix; else <<name>>.
file_name(path) ==
    LET seps == { k \in 1..Len(path) : IsSeparator(path[k]) }
        last == IF seps = {} THEN 0 ELSE CHOOSE k \in seps : \A j \in seps : j <= k
        isPrefix == platform = "windows" /\ Len(path) = 2 /\ path[2] = 58
    IN IF last = Len(path) \/ isPrefix THEN <<>>
       ELSE << SubSeq(path, last + 1, Len(path)) >>

\* root.file_name().map(..).unwrap_or_else(|| root.to_string_lossy())
BulkRootName(path) == IF file_name(path) = <<>> THEN path ELSE file_name(path)[1]

\* ----------------------------------------------------------- ScanProgress
\* A worker that stores its own count over the shared counter.
fetch_store(counter, n) == n

\* AtomicU64::fetch_add(n, Relaxed): one indivisible read-modify-write; the
\* counters stay far below 2^64.
fetch_add(counter, n) == counter + n

\* "/x"
UnixPaths == { <<47, 120>> }
\* "C:\", "C:\x", "\\s"
WindowsPaths == { <<67, 58, 92>>, <<67, 58, 92, 120>>, <<92, 92, 115>> }

\* ------------------------------------------------------- macOS bulk scan
\* get_dev: st_dev of a path (0 = the root's device).
get_dev(i) == IF fs[i].fault = "otherdev" THEN <<1>> ELSE <<0>>

\* A parse that never reads the file data length: every size is 0.
parse_without_datalength(i) ==
    IF fs[i].fault = "bad" THEN <<>>
    ELSE <<[id |-> i, name |-> NameOf(i), is_dir |-> (fs[i].kind = "dir"), size |-> 0]>>

\* parse_bulk_entry on the record of entry i: <<>> (None) for a record with a
\* nonzero error code, else <<BulkEntry>>.
parse_bulk_entry(i) ==
    IF fs[i].fault = "bad" THEN <<>>
    ELSE <<[id |-> i, name |-> NameOf(i), is_dir |-> (fs[i].kind = "dir"), size |-> fs[i].size]>>

RECURSIVE ParseAll(_)
ParseAll(ids) ==
    IF ids = <<>> THEN <<>> ELSE parse_bulk_entry(Head(ids)) \o ParseAll(Tail(ids))

\* read_dir_bulk: <<>> (None) when the open or the syscall fails, else
\* <<entries>>, the records that parse.
read_dir_bulk(d) ==
    IF fs[d].fault \in {"bulkfail", "unreadable"} THEN <<>>
    ELSE << ParseAll(Listing(fs, d)) >>

\* The device-boundary test before queueing a subdirectory.
SameDevice(i) == root_dev = <<>> \/ get_dev(i) = root_dev

\* What one call of scan_dir_recursive does before its fork point, on the
\* bulk path: counters, file nodes, queued subdirectories.
BulkOutcome(bulk) ==
    LET dirs == SelectSeq(bulk, LAMBDA e : e.is_dir)
        files == SelectSeq(bulk, LAMBDA e : ~e.is_dir)
    IN [nfiles |-> Len(files), ndirs |-> Len(dirs), nerrors |-> 0,
        files |-> [k \in 1..Len(files) |-> files[k].id],
        sizes |-> [k \in 1..Len(files) |-> files[k].size],
        dirs |-> LET kept == SelectSeq(dirs, LAMBDA e : SameDevice(e.id))
                 IN [k \in 1..Len(kept) |-> kept[k].id]]

\* A fallback that treats the failed directory as lost: one error, no entries.
FallbackGivesUp(d) ==
    [nfiles |-> 0, ndirs |-> 0, nerrors |-> 1, files |-> <<>>, sizes |-> <<>>, dirs |-> <<>>]

\* read_dir_fallback before its fork point: readdir + stat of every entry.
FallbackOutcome(d) ==
    IF fs[d].fault = "unreadable"
    THEN [nfiles |-> 0, ndirs |-> 0, nerrors |-> 1, files |-> <<>>, sizes |-> <<>>, dirs |-> <<>>]
    ELSE LET all == Listing(fs, d)
             ok == SelectSeq(all, LAMBDA i : fs[i].fault # "bad")
             dirs == SelectSeq(ok, LAMBDA i : fs[i].kind = "dir")
             files == SelectSeq(ok, LAMBDA i : fs[i].kind = "file")
         IN [nfiles |-> Len(files), ndirs |-> Len(dirs),
             nerrors |-> Len(all) - Len(ok),
             files |-> files,
             sizes |-> [k \in 1..Len(files) |-> fs[files[k]].size],
             dirs |-> SelectSeq(dirs, LAMBDA i : SameDevice(i))]

\* FileNode::new_file(entry.name, entry.size) for each file entry.
FileNodes(files, sizes) ==
    [i \in Range(files) |->
        new_file(NameOf(i), sizes[CHOOSE k \in 1..Len(files) : files[k] = i])]

\* scan_bulk up to its call of scan_dir_recursive(root, .., 0).
ScanBulkStart ==
    /\ pc = "start"
    /\ platform = "macos"
    /\ root_dev' = get_dev(0)
    /\ task' = [task EXCEPT ![0] = [st |-> "queued", depth |-> 0, via |-> "none",
                                    files |-> <<>>, dirs |-> <<>>]]
    /\ pc' = "bulk"
    /\ UNCHANGED <<inputVars, auxVars, progressVars, cp_locked, ret, tree, result, sortVars, walkVars, entries>>

\* What scan_dir_recursive(d, .., depth) finds before its fork point, bulk
\* being what read_dir_bulk returned: nothing at the depth cap, else the bulk
\* listing, else the fallback's.
DirOutcomeOf(d, depth, bulk) ==
    IF depth >= MAX_DEPTH
    THEN [via |-> "none", nfiles |-> 0, ndirs |-> 0, nerrors |-> 0,
          files |-> <<>>, sizes |-> <<>>, dirs |-> <<>>]
    ELSE IF bulk # <<>>
         THEN [via |-> "bulk"] @@ BulkOutcome(bulk[1])
         ELSE [via |-> "fallback"] @@ FallbackOutcome(d)

\* The same with read_dir_bulk taken as one step.
DirOutcome(d, depth) == DirOutcomeOf(d, depth, read_dir_bulk(d))

RECURSIVE Spawn(_, _, _)
\* The parallel map over dir_entries: one call at depth + 1 per subdirectory.
Spawn(t, dirs, depth) ==
    IF dirs = <<>> THEN t
    ELSE Spawn([t EXCEPT ![Head(dirs)].st = "queued", ![Head(dirs)].depth = depth + 1],
               Tail(dirs), depth)

\* scan_dir_recursive with current_path.lock() in place of try_lock(): the
\* call waits for the lock.
ScanDirFromBlocking(d, o) ==
    /\ ~cp_locked
    /\ \E withFiles \in {FileNodes(o.files, o.sizes) @@ tree} :
          /\ current_path' = IF o.via = "none" THEN current_path ELSE <<d>>
          /\ files_scanned' = fetch_add(files_scanned, o.nfiles)
          /\ dirs_scanned' = fetch_add(dirs_scanned, o.ndirs)
          /\ errors' = fetch_add(errors, o.nerrors)
          /\ IF o.dirs = <<>>
             THEN /\ task' = [task EXCEPT ![d].st = "done", ![d].via = o.via, ![d].files = o.files]
                  /\ ret' = [ret EXCEPT ![d] = o.files]
                  /\ tree' = IF d = 0 THEN withFiles
                             ELSE (d :> DirNode(withFiles, NameOf(d), o.files)) @@ withFiles
             ELSE /\ task' = Spawn([task EXCEPT ![d].st = "forked", ![d].via = o.via,
                                                ![d].files = o.files, ![d].dirs = o.dirs],
                                   o.dirs, task[d].depth)
                  /\ ret' = ret
                  /\ tree' = withFiles
    /\ UNCHANGED <<inputVars, pc, cp_locked, root_dev, result, sortVars, walkVars, entries>>

\* scan_dir_recursive(d, .., depth) from the outcome o of its listing up to
\* its fork point; it returns here when it queued no subdirectory.
ScanDirFrom(d, o) ==
    /\ \E withFiles \in {FileNodes(o.files, o.sizes) @@ tree} :
          /\ current_path' = IF o.via = "none" \/ cp_locked THEN current_path ELSE <<d>>
          /\ files_scanned' = fetch_add(files_scanned, o.nfiles)
          /\ dirs_scanned' = fetch_add(dirs_scanned, o.ndirs)
          /\ errors' = fetch_add(errors, o.nerrors)
          /\ IF o.dirs = <<>>
             THEN /\ task' = [task EXCEPT ![d].st = "done", ![d].via = o.via, ![d].files = o.files]
                  /\ ret' = [ret EXCEPT ![d] = o.files]
                  /\ tree' = IF d = 0 THEN withFiles
                             ELSE (d :> DirNode(withFiles, NameOf(d), o.files)) @@ withFiles
             ELSE /\ task' = Spawn([task EXCEPT ![d].st = "forked", ![d].via = o.via,
                                                ![d].files = o.files, ![d].dirs = o.dirs],
                                   o.dirs, task[d].depth)
                  /\ ret' = ret
                  /\ tree' = withFiles
    /\ UNCHANGED <<inputVars, pc, cp_locked, root_dev, result, sortVars, walkVars, entries>>

\* One call scan_dir_recursive(d, .., depth) up to its fork point.
ScanDirRecursive(d) ==
    /\ pc = "bulk"
    /\ task[d].st = "queued"
    /\ \E o \in {DirOutcome(d, task[d].depth)} : ScanDirFrom(d, o)
    /\ UNCHANGED auxVars

\* A join that does not wait: it collects the subdirectories whose calls have
\* returned so far and returns.
JoinDirEarly(d) ==
    /\ pc = "bulk"
    /\ task[d].st = "forked"
    /\ LET r == task[d].files \o SelectSeq(task[d].dirs, LAMBDA c : task[c].st = "done")
       IN /\ ret' = [ret EXCEPT ![d] = r]
          /\ tree' = IF d = 0 THEN tree ELSE (d :> DirNode(tree, NameOf(d), r)) @@ tree
    /\ task' = [task EXCEPT ![d].st = "done"]
    /\ UNCHANGED <<inputVars, auxVars, pc, progressVars, cp_locked, root_dev, result, sortVars, walkVars, entries>>

\* The join of the parallel map over dir_entries: every subdirectory's call
\* has returned; file_nodes.extend(dir_nodes) and return.
JoinDir(d) ==
    /\ pc = "bulk"
    /\ task[d].st = "forked"
    /\ \A c \in Range(task[d].dirs) : task[c].st = "done"
    /\ LET r == task[d].files \o task[d].dirs
       IN /\ ret' = [ret EXCEPT ![d] = r]
          /\ tree' = IF d = 0 THEN tree ELSE (d :> DirNode(tree, NameOf(d), r)) @@ tree
    /\ task' = [task EXCEPT ![d].st = "done"]
    /\ UNCHANGED <<inputVars, auxVars, pc, progressVars, cp_locked, root_dev, result, sortVars, walkVars, entries>>

\* The pending calls of a recursive sort entered at node n: a call on a node
\* without children changes nothing and is left out.
SortCalls(t, ch) == SelectSeq(ch, LAMBDA k : t[k].children # <<>>)

\* scan_bulk after scan_dir_recursive returned: the root node, its size, and
\* the entry into node.sort_by_size().
ScanBulkFinish ==
    /\ pc = "bulk"
    /\ task[0].st = "done"
    /\ LET t == (0 :> DirNode(tree, BulkRootName(scan_path), ret[0])) @@ tree
       IN /\ tree' = t
          /\ result' = <<0>>
          /\ sortMode' = "size"
          /\ sortQueue' = SortCalls(t, <<0>>)
          /\ pc' = IF SortCalls(t, <<0>>) = <<>> THEN "scanned" ELSE "sorting"
    /\ UNCHANGED <<inputVars, auxVars, progressVars, cp_locked, bulkVars, walkVars, entries>>

\* One call of sort_by_size / sort_by_name: sort this node's children, then
\* call the same sort on each child.
SortNode ==
    /\ pc = "sorting"
    /\ sortQueue # <<>>
    /\ LET n == Head(sortQueue)
       IN \E p \in SortUnstable(tree, sortMode, tree[n].children) :
            /\ tree' = [tree EXCEPT ![n].children = p]
            /\ sortQueue' = SortCalls(tree, p) \o Tail(sortQueue)
            /\ pc' = IF SortCalls(tree, p) \o Tail(sortQueue) = <<>> THEN "scanned" ELSE "sorting"
    /\ UNCHANGED <<inputVars, auxVars, progressVars, cp_locked, bulkVars, result, sortMode, walkVars, entries>>

\* A consumer calls sort_by_size on node n of the returned tree.
sort_by_size(n) ==
    /\ pc = "scanned"
    /\ n \in DOMAIN tree
    /\ tree[n].children # <<>>
    /\ sortMode' = "size"
    /\ sortQueue' = <<n>>
    /\ pc' = "sorting"
    /\ UNCHANGED <<inputVars, auxVars, progressVars, cp_locked, bulkVars, tree, result, walkVars, entries>>

\* A consumer calls sort_by_name on node n of the returned tree.
sort_by_name(n) ==
    /\ pc = "scanned"
    /\ n \in DOMAIN tree
    /\ tree[n].children # <<>>
    /\ sortMode' = "name"
    /\ sortQueue' = <<n>>
    /\ pc' = "sorting"
    /\ UNCHANGED <<inputVars, auxVars, progressVars, cp_locked, bulkVars, tree, result, walkVars, entries>>

\* -------------------------------------------------- generic scan (jwalk)
\* What the WalkDir iterator can yield for entry e.  An entry whose metadata
\* cannot be read is yielded Ok when its file type came with the directory
\* listing (metadata() then fails in the closure) and Err otherwise.  A
\* directory whose listing fails is itself yielded Ok without children; the
\* listing's error is stored in the entry or surfaces as one Err item.
WalkYields(e) ==
    IF fs[e].fault = "bad" THEN {"ok_nometa", "err"}
    ELSE IF fs[e].fault = "unreadable" THEN {"ok_nolist", "ok_nolist_err"}
    ELSE {"ok"}

\* The closure's (path, is_dir, size) for an Ok entry:
\* size = if is_dir { 0 } else { e.metadata().map(|m| m.len()).unwrap_or(0) }
FlatTriple(e, y) ==
    [path |-> e, is_dir |-> (fs[e].kind = "dir"),
     size |-> IF fs[e].kind = "dir" \/ y = "ok_nometa" THEN 0 ELSE fs[e].size]

\* scan: WalkDir::new(root).skip_hidden(false).into_iter(); the root is the
\* first entry the iterator yields.
ScanStart == pc' = "walk" /\ walkStack' = <<0>> /\ flat' = <<>>

\* One item of the iterator through the filter_map closure.
WalkEntry ==
    /\ pc = "walk"
    /\ walkStack # <<>>
    /\ LET e == Head(walkStack)
       IN \E y \in WalkYields(e) :
            /\ walkStack' = (IF fs[e].kind = "dir" /\ y = "ok" THEN Listing(fs, e) ELSE <<>>)
                            \o Tail(walkStack)
            /\ IF y = "err"
               THEN /\ errors' = fetch_add(errors, 1)
                    /\ UNCHANGED <<files_scanned, dirs_scanned, current_path, flat>>
               ELSE /\ flat' = Append(flat, FlatTriple(e, y))
                    /\ errors' = IF y = "ok_nolist_err" THEN fetch_add(errors, 1) ELSE errors
                    /\ IF fs[e].kind = "dir"
                       THEN /\ dirs_scanned' = fetch_add(dirs_scanned, 1)
                            /\ current_path' = IF cp_locked THEN current_path ELSE <<e>>
                            /\ UNCHANGED files_scanned
                       ELSE /\ files_scanned' = fetch_add(files_scanned, 1)
                            /\ UNCHANGED <<dirs_scanned, current_path>>
    /\ UNCHANGED <<inputVars, auxVars, pc, cp_locked, bulkVars, tree, result, sortVars, entries>>

\* dir_children.get(parent): the flat entries other than the root whose
\* path.parent() is parent, in flat order.
DirChildren(fl, parent) ==
    SelectSeq(fl, LAMBDA x : x.path # 0 /\ fs[x.path].parent = parent)

PathsOf(xs) == [k \in 1..Len(xs) |-> xs[k].path]

RECURSIVE build_recursive(_, _)
\* The nodes build_recursive makes for the flat entries xs and everything
\* below them.
build_recursive(xs, fl) ==
    IF xs = <<>> THEN <<>>
    ELSE LET c == Head(xs)
             rest == build_recursive(Tail(xs), fl)
         IN IF c.is_dir
            THEN LET kids == DirChildren(fl, c.path)
                     sub == build_recursive(kids, fl)
                 IN (c.path :> DirNode(sub, NameOf(c.path), PathsOf(kids))) @@ sub @@ rest
            ELSE (c.path :> new_file(NameOf(c.path), c.size)) @@ rest

\* build_tree(root, flat) up to its call of root.sort_by_size().
build_tree(fl) ==
    LET kids == DirChildren(fl, 0)
        sub == build_recursive(kids, fl)
    IN (0 :> DirNode(sub, scan_path, PathsOf(kids))) @@ sub

\* scan after the walk: build_tree, entered up to the sort.
BuildTree ==
    /\ pc = "walk"
    /\ walkStack = <<>>
    /\ LET t == build_tree(flat)
       IN /\ tree' = t
          /\ result' = <<0>>
          /\ sortMode' = "size"
          /\ sortQueue' = SortCalls(t, <<0>>)
          /\ pc' = IF SortCalls(t, <<0>>) = <<>> THEN "scanned" ELSE "sorting"
    /\ UNCHANGED <<inputVars, auxVars, progressVars, cp_locked, bulkVars, walkVars, entries>>

\* --------------------------------------------------- Windows MFT scan
MftRecords == 0..(ROOT_RECORD + MaxMftRecs)
Absent == [state |-> "absent", parent_ref |-> 0, size |-> 0, is_dir |-> FALSE]
NoName == [state |-> "noname", parent_ref |-> 0, size |-> 0, is_dir |-> FALSE]
Named(p, s, d) == [state |-> "named", parent_ref |-> p, size |-> s, is_dir |-> d]

\* The MFTs: the root record is a directory whose parent is itself or the next
\* record; the records after it are unused, nameless, directories or files,
\* with any parent reference.
MftTables ==
    LET refs == ROOT_RECORD..(ROOT_RECORD + MaxMftRecs)
        others == {Absent, NoName}
                    \cup { Named(p, 0, TRUE) : p \in refs }
                    \cup { Named(p, s, FALSE) : p \in refs, s \in FileSizes }
    IN { [r \in MftRecords |->
            IF r < ROOT_RECORD THEN Absent
            ELSE IF r = ROOT_RECORD THEN Named(rp, 0, TRUE)
            ELSE m[r]] :
           rp \in {ROOT_RECORD, ROOT_RECORD + 1}, m \in [(ROOT_RECORD + 1)..(ROOT_RECORD + MaxMftRecs) -> others] }

\* "C:\" from the drive letter: format!("{}:\\", drive_letter)
MftRootName(drive_letter) == <<drive_letter, 58, 92>>

\* scan_mft: Volume::new(..).ok()? and Mft::new(volume).ok()?: None when
\* either fails, before anything else is done.
\* A scan_mft that has counted a record by the time it gives up.
MftOpenCounting ==
    /\ pc = "mft"
    /\ IF mft_ok
       THEN pc' = "mft_iterate" /\ UNCHANGED <<walkVars, files_scanned>>
       ELSE ScanStart /\ files_scanned' = files_scanned + 1
    /\ UNCHANGED <<inputVars, auxVars, dirs_scanned, errors, current_path, cp_locked, bulkVars,
                   tree, result, sortVars, entries>>

MftOpen ==
    /\ pc = "mft"
    /\ IF mft_ok
       THEN pc' = "mft_iterate" /\ UNCHANGED walkVars
       ELSE \E failing \in {"volume", "mft"} : ScanStart
    /\ UNCHANGED <<inputVars, auxVars, progressVars, cp_locked, bulkVars, tree, result, sortVars, entries>>

\* mft.iterate_files: count every file record; keep the named ones.
MftIterate ==
    /\ pc = "mft_iterate"
    /\ files_scanned' = fetch_add(files_scanned, Cardinality({ r \in MftRecords : mft[r].state # "absent" }))
    /\ entries' = [r \in MftRecords |-> IF mft[r].state = "named" THEN <<mft[r]>> ELSE <<>>]
    /\ pc' = "mft_build"
    /\ UNCHANGED <<inputVars, auxVars, dirs_scanned, errors, current_path, cp_locked, bulkVars,
                   tree, result, sortVars, walkVars>>

\* children_map.get(p): the records whose parent_ref is p, self-parents left out.
children_map(en, p) ==
    SelectSeq([k \in 1..Cardinality(DOMAIN en) |-> k - 1],
              LAMBDA r : en[r] # <<>> /\ en[r][1].parent_ref = p /\ en[r][1].parent_ref # r)

\* The records build_subtree is called on, from the root's children down.
RECURSIVE Materialized(_, _, _)
Materialized(en, seen, k) ==
    LET more == seen \cup UNION { Range(children_map(en, r)) :
                                    r \in { x \in seen : en[x][1].is_dir } }
    IN IF k = 0 \/ more = seen THEN seen ELSE Materialized(en, more, k - 1)

RECURSIVE build_subtree(_, _)
\* The nodes build_subtree(ref_num) makes (only called without a cycle).
build_subtree(en, ref_num) ==
    LET entry == en[ref_num][1]
        kids == IF entry.is_dir
                THEN SelectSeq(children_map(en, ref_num), LAMBDA c : c # ref_num /\ en[c] # <<>>)
                ELSE <<>>
        below == [k \in 1..Len(kids) |-> build_subtree(en, kids[k])]
        RECURSIVE Merge(_)
        Merge(i) == IF i > Len(kids) THEN <<>> ELSE below[i] @@ Merge(i + 1)
        sub == Merge(1)
    IN (ref_num :> [name |-> NameOf(ref_num),
                    size |-> IF entry.is_dir THEN SumSizes(sub, kids) ELSE entry.size,
                    is_dir |-> entry.is_dir,
                    children |-> kids]) @@ sub

\* scan_mft after the iteration: children_map, the tree from ROOT_RECORD, up
\* to root.sort_by_size().  A parent chain that comes back to the root record
\* makes build_subtree recurse without end: the stack overflows.
MftBuild ==
    /\ pc = "mft_build"
    /\ LET kids == children_map(entries, ROOT_RECORD)
           reach == Materialized(entries, Range(kids), Cardinality(MftRecords))
       IN IF ROOT_RECORD \in reach
          THEN /\ pc' = "crashed"
               /\ UNCHANGED <<tree, result, sortVars>>
          ELSE LET below == [k \in 1..Len(kids) |-> build_subtree(entries, kids[k])]
                   RECURSIVE Merge(_)
                   Merge(i) == IF i > Len(kids) THEN <<>> ELSE below[i] @@ Merge(i + 1)
                   sub == Merge(1)
                   t == (ROOT_RECORD :> DirNode(sub, MftRootName(scan_path[1]), kids)) @@ sub
               IN /\ tree' = t
                  /\ result' = <<ROOT_RECORD>>
                  /\ sortMode' = "size"
                  /\ sortQueue' = SortCalls(t, <<ROOT_RECORD>>)
                  /\ pc' = IF SortCalls(t, <<ROOT_RECORD>>) = <<>> THEN "scanned" ELSE "sorting"
    /\ UNCHANGED <<inputVars, auxVars, progressVars, cp_locked, bulkVars, walkVars, entries>>

\* ------------------------------------------------------------- dispatcher
\* path_str.len() >= 2 && path_str.as_bytes()[1] == b':'
HasDriveLetter(path) == Len(path) >= 2 /\ path[2] = 58

\* cfg(windows): the MFT scanner for a path with a drive letter, else scan.
DispatchWindows ==
    /\ pc = "start"
    /\ platform = "windows"
    /\ IF HasDriveLetter(scan_path)
       THEN pc' = "mft" /\ UNCHANGED walkVars
       ELSE ScanStart
    /\ UNCHANGED <<inputVars, auxVars, progressVars, cp_locked, bulkVars, tree, result, sortVars, entries>>

\* cfg(not windows, not macos): scan.
DispatchGeneric ==
    /\ pc = "start"
    /\ platform = "other"
    /\ ScanStart
    /\ UNCHANGED <<inputVars, auxVars, progressVars, cp_locked, bulkVars, tree, result, sortVars, entries>>

\* ---------------------------------------------------------- specification
\* The progress reporter before its first poll; no read_dir_bulk call being
\* followed; no get_directory_view call made.
IdleReader == [pc |-> "sleep", files |-> 0, dirs |-> 0, errors |-> 0, cp |-> <<>>]
IdleRdb == [pc |-> "idle"]
NoView == [pc |-> "idle", stored |-> FALSE]
\* No record parsed; the TUI not started; start_scan not invoked.
NoRec == [pc |-> "idle"]
NoApp == [pc |-> "idle"]
NoSvc == [pc |-> "idle"]

IdleTask == [st |-> "idle", depth |-> 0, via |-> "none", files |-> <<>>, dirs |-> <<>>]

EmptySnapshot == (0 :> Entry(0, "dir", 0, "none"))
NoMft == [r \in MftRecords |-> Absent]

\* The inputs of one run: the build, the requested root, what is on disk.
Inputs ==
    \/ /\ platform = "macos"
       /\ scan_path \in UnixPaths
       /\ fs \in BulkSnapshots
       /\ mft_ok = FALSE /\ mft = NoMft
    \/ /\ platform = "other"
       /\ scan_path \in UnixPaths
       /\ fs \in GenericSnapshots
       /\ mft_ok = FALSE /\ mft = NoMft
    \/ /\ platform = "windows"
       /\ scan_path \in WindowsPaths
       /\ \/ /\ HasDriveLetter(scan_path)
             /\ mft_ok = TRUE /\ mft \in MftTables
             /\ fs = EmptySnapshot
          \/ /\ mft_ok = FALSE
             /\ mft = NoMft
             /\ fs \in GenericSnapshots

Start ==
    /\ pc = "start"
    /\ files_scanned = 0
    /\ dirs_scanned = 0
    /\ errors = 0
    /\ current_path = <<>>
    /\ cp_locked = FALSE
    /\ root_dev = <<>>
    /\ task = [d \in DOMAIN fs |-> IdleTask]
    /\ ret = [d \in DOMAIN fs |-> <<>>]
    /\ tree = <<>>
    /\ result = <<>>
    /\ sortQueue = <<>>
    /\ sortMode = "size"
    /\ walkStack = <<>>
    /\ flat = <<>>
    /\ entries = <<>>
    /\ reader = IdleReader
    /\ rdb = IdleRdb
    /\ view = NoView
    /\ bench = <<>>
    /\ rec = NoRec
    /\ app = NoApp
    /\ svc = NoSvc

Init == Inputs /\ Start

Next ==
    \/ ScanBulkStart
    \/ \E d \in DOMAIN fs : ScanDirRecursive(d)
    \/ \E d \in DOMAIN fs : JoinDir(d)
    \/ ScanBulkFinish
    \/ DispatchGeneric
    \/ DispatchWindows
    \/ WalkEntry
    \/ BuildTree
    \/ MftOpen
    \/ MftIterate
    \/ MftBuild
    \/ SortNode
    \/ \E n \in DOMAIN tree : sort_by_size(n)
    \/ \E n \in DOMAIN tree : sort_by_name(n)

Spec == Init /\ [][Next]_vars

\* The scanners alone, up to the tree they return: no consumer re-sorts it.
NextScan ==
    \/ ScanBulkStart
    \/ \E d \in DOMAIN fs : ScanDirRecursive(d)
    \/ \E d \in DOMAIN fs : JoinDir(d)
    \/ ScanBulkFinish
    \/ DispatchGeneric
    \/ DispatchWindows
    \/ WalkEntry
    \/ BuildTree
    \/ MftOpen
    \/ MftIterate
    \/ MftBuild
    \/ SortNode

SpecScan == Init /\ [][NextScan]_vars

\* The progress reporter thread of start_scan, one poll in three steps: the
\* three counter loads after the sleep,
ReaderLoad ==
    /\ reader.pc = "sleep"
    /\ reader' = [reader EXCEPT !.pc = "loaded", !.files = files_scanned,
                                !.dirs = dirs_scanned, !.errors = errors]
    /\ UNCHANGED <<inputVars, pc, progressVars, cp_locked, bulkVars, tree, result, sortVars,
                   walkVars, entries, rdb, view, bench, extraVars>>

\* current_path.lock(): the workers hold the lock only within one step of
\* theirs, so it is free whenever the reader asks,
ReaderLock ==
    /\ reader.pc = "loaded"
    /\ ~cp_locked
    /\ cp_locked' = TRUE
    /\ reader' = [reader EXCEPT !.pc = "locked"]
    /\ UNCHANGED <<inputVars, pc, progressVars, bulkVars, tree, result, sortVars,
                   walkVars, entries, rdb, view, bench, extraVars>>

\* and the clone, the release of the guard, the Progress event with the
\* values read, and the done_flag test: the reporter leaves once the scan
\* thread has stored its result.
ReaderSend ==
    /\ reader.pc = "locked"
    /\ cp_locked' = FALSE
    /\ reader' = [reader EXCEPT !.cp = current_path,
                                !.pc = IF pc = "scanned" THEN "exited" ELSE "sleep"]
    /\ UNCHANGED <<inputVars, pc, progressVars, bulkVars, tree, result, sortVars,
                   walkVars, entries, rdb, view, bench, extraVars>>

\* The bulk scan followed with its progress reporter: a directory that
\* cannot be listed is the one fault, which makes all three counters move.
InitProgress ==
    /\ platform = "macos"
    /\ scan_path \in UnixPaths
    /\ fs \in SnapshotsOf({}, {"unreadable"}, {"none"})
    /\ mft_ok = FALSE /\ mft = NoMft
    /\ Start

\* A scan with its progress reporter.
NextProgress ==
    \/ ScanBulkStart
    \/ \E d \in DOMAIN fs : ScanDirRecursive(d)
    \/ \E d \in DOMAIN fs : JoinDir(d)
    \/ ScanBulkFinish
    \/ SortNode
    \/ ReaderLoad
    \/ ReaderLock
    \/ ReaderSend

SpecProgress == InitProgress /\ [][NextProgress]_vars

\* The macOS build on the deep chains.
InitDeep ==
    /\ platform = "macos"
    /\ scan_path \in UnixPaths
    /\ fs \in DeepSnapshots
    /\ mft_ok = FALSE /\ mft = NoMft
    /\ Start

NextDeep ==
    \/ ScanBulkStart
    \/ \E d \in DOMAIN fs : ScanDirRecursive(d)
    \/ \E d \in DOMAIN fs : JoinDir(d)
    \/ ScanBulkFinish
    \/ SortNode

SpecDeep == InitDeep /\ [][NextDeep]_vars


\* ----------------------------------- read_dir_bulk, system call by call
\* What the getattrlistbulk calls on one directory return, one element per
\* call: [count |-> -1] for a failed call, else [count |-> n, recs |-> the n
\* records of the buffer].  A record is the number of the entry it describes,
\* negated when its length field is 0 or runs past the buffer.  After the last
\* element the call returns 0.
Batches(recs, k) ==
    IF recs = <<>> THEN <<>>
    ELSE IF k = 0 \/ k >= Len(recs) THEN << [count |-> Len(recs), recs |-> recs] >>
    ELSE << [count |-> k, recs |-> SubSeq(recs, 1, k)],
            [count |-> Len(recs) - k, recs |-> SubSeq(recs, k + 1, Len(recs))] >>

\* Every way the kernel can hand out the listing l: in one or two buffers,
\* with at most one record whose length field is bad, and with at most one
\* failing call, the first, the second or the third.
CallPlans(l) ==
    { LET recs == [i \in 1..Len(l) |-> IF i = t THEN 0 - l[i] ELSE l[i]]
          good == Batches(recs, k)
      IN IF f = 0 THEN good
         ELSE SubSeq(good, 1, IF f - 1 < Len(good) THEN f - 1 ELSE Len(good))
                \o << [count |-> 0 - 1] >> :
      k \in 0..Len(l), t \in 0..Len(l), f \in 0..3 }

RECURSIVE ParseRecords(_)
\* The for loop over one buffer: stop at a record with a bad length field,
\* keep the records that parse.
ParseRecords(recs) ==
    IF recs = <<>> \/ Head(recs) < 0 THEN <<>>
    ELSE parse_bulk_entry(Head(recs)) \o ParseRecords(Tail(recs))

\* scan_dir_recursive(d) enters read_dir_bulk(d); one call per scan is
\* followed call by call, on any directory.
RdbEnter(d) ==
    /\ pc = "bulk"
    /\ task[d].st = "queued"
    /\ task[d].depth < MAX_DEPTH
    /\ rdb.pc = "idle"
    /\ \E ok \in BOOLEAN, plan \in CallPlans(Listing(fs, d)) :
          rdb' = [pc |-> "open", dir |-> d, open_ok |-> ok, calls |-> plan,
                  fd |-> "none", opens |-> 0, closes |-> 0, good_calls |-> 0,
                  broke |-> FALSE, results |-> <<>>, ret |-> <<>>]
    /\ task' = [task EXCEPT ![d].st = "reading"]
    /\ UNCHANGED <<inputVars, pc, progressVars, cp_locked, root_dev, ret, tree, result,
                   sortVars, walkVars, entries, reader, view, bench, extraVars>>

\* A read_dir_bulk whose descriptor is a bare integer: the early return on a
\* failed call forgets to close it.
RdbCallLeaky ==
    /\ rdb.pc = "loop"
    /\ IF rdb.calls = <<>>
       THEN rdb' = [rdb EXCEPT !.pc = "returned", !.ret = << rdb.results >>,
                               !.fd = "closed", !.closes = @ + 1]
       ELSE IF Head(rdb.calls).count < 0
            THEN rdb' = [rdb EXCEPT !.pc = "returned", !.ret = <<>>]
            ELSE rdb' = [rdb EXCEPT !.calls = Tail(@), !.good_calls = @ + 1,
                                    !.results = @ \o ParseRecords(Head(rdb.calls).recs)]
    /\ UNCHANGED <<inputVars, pc, progressVars, cp_locked, bulkVars, tree, result,
                   sortVars, walkVars, entries, reader, view, bench, extraVars>>

\* libc::open(.., O_RDONLY | O_DIRECTORY): None when it fails, else the
\* descriptor is owned by an OwnedFd.
RdbOpen ==
    /\ rdb.pc = "open"
    /\ IF rdb.open_ok
       THEN rdb' = [rdb EXCEPT !.pc = "loop", !.fd = "open", !.opens = @ + 1]
       ELSE rdb' = [rdb EXCEPT !.pc = "returned", !.ret = <<>>]
    /\ UNCHANGED <<inputVars, pc, progressVars, cp_locked, bulkVars, tree, result,
                   sortVars, walkVars, entries, reader, view, bench, extraVars>>

\* One turn of the loop: a getattrlistbulk call.  count < 0 returns None,
\* count == 0 leaves the loop and returns Some(results), and on both returns
\* the OwnedFd is dropped, which closes the descriptor; otherwise the buffer
\* is parsed and the loop goes on.
RdbCall ==
    /\ rdb.pc = "loop"
    /\ IF rdb.calls = <<>>
       THEN rdb' = [rdb EXCEPT !.pc = "returned", !.ret = << rdb.results >>,
                               !.fd = "closed", !.closes = @ + 1]
       ELSE IF Head(rdb.calls).count < 0
            THEN rdb' = [rdb EXCEPT !.pc = "returned", !.ret = <<>>,
                                    !.fd = "closed", !.closes = @ + 1]
            ELSE rdb' = [rdb EXCEPT !.calls = Tail(@), !.good_calls = @ + 1,
                                    !.broke = @ \/ (\E i \in DOMAIN Head(rdb.calls).recs :
                                                       Head(rdb.calls).recs[i] < 0),
                                    !.results = @ \o ParseRecords(Head(rdb.calls).recs)]
    /\ UNCHANGED <<inputVars, pc, progressVars, cp_locked, bulkVars, tree, result,
                   sortVars, walkVars, entries, reader, view, bench, extraVars>>

\* A scan_dir_recursive that counts the entries parsed before a failing call
\* and then lets the fallback count the directory again.
ScanDirAfterReadTwice(d) ==
    /\ pc = "bulk"
    /\ rdb.pc = "returned"
    /\ rdb.dir = d
    /\ \E o \in {DirOutcomeOf(d, task[d].depth, rdb.ret)} :
          ScanDirFrom(d, IF rdb.ret = <<>>
                         THEN [o EXCEPT !.nfiles = @ + BulkOutcome(rdb.results).nfiles,
                                        !.ndirs = @ + BulkOutcome(rdb.results).ndirs]
                         ELSE o)
    /\ rdb' = [rdb EXCEPT !.pc = "done"]
    /\ UNCHANGED <<reader, view, bench, extraVars>>

\* scan_dir_recursive(d) goes on with what read_dir_bulk(d) returned.
ScanDirAfterRead(d) ==
    /\ pc = "bulk"
    /\ rdb.pc = "returned"
    /\ rdb.dir = d
    /\ \E o \in {DirOutcomeOf(d, task[d].depth, rdb.ret)} : ScanDirFrom(d, o)
    /\ rdb' = [rdb EXCEPT !.pc = "done"]
    /\ UNCHANGED <<reader, view, bench, extraVars>>

\* The macOS build on snapshots whose entries can all be listed, a file's
\* bulk record possibly carrying an error code.
InitReadDir ==
    /\ platform = "macos"
    /\ scan_path \in UnixPaths
    /\ fs \in SnapshotsOf({"bad"}, {}, {"none"})
    /\ mft_ok = FALSE /\ mft = NoMft
    /\ Start

NextReadDir ==
    \/ ScanBulkStart
    \/ \E d \in DOMAIN fs : RdbEnter(d)
    \/ RdbOpen
    \/ RdbCall
    \/ \E d \in DOMAIN fs : ScanDirAfterRead(d)
    \/ \E d \in DOMAIN fs : ScanDirRecursive(d)
    \/ \E d \in DOMAIN fs : JoinDir(d)
    \/ ScanBulkFinish
    \/ SortNode

SpecReadDir == InitReadDir /\ [][NextReadDir]_vars

\* ------------------------------------------------- bench_scan --compare
RECURSIVE tree_stats_recursive(_, _)
\* tree_stats over the nodes ch of heap t: files, directories (each directory
\* counts itself) and the sum of the file sizes.
tree_stats_recursive(t, ch) ==
    IF ch = <<>> THEN [files |-> 0, dirs |-> 0, size |-> 0]
    ELSE LET node == t[Head(ch)]
             rest == tree_stats_recursive(t, Tail(ch))
             below == tree_stats_recursive(t, node.children)
         IN IF node.is_dir
            THEN [files |-> below.files + rest.files,
                  dirs |-> 1 + below.dirs + rest.dirs,
                  size |-> below.size + rest.size]
            ELSE [files |-> 1 + rest.files, dirs |-> rest.dirs, size |-> node.size + rest.size]

tree_stats(t, root) == tree_stats_recursive(t, <<root>>)

\* The error-free, single-device snapshots.
CleanSnapshots == { f \in UNION { Shapes(n) : n \in 0..MaxEntries } : WellFormed(f) }

\* run_mac_scan has returned: keep its RunResult (and its tree, for the
\* node-by-node comparison), then run_jwalk_scan starts scan on the same path
\* with a new ScanProgress.
run_jwalk_scan ==
    /\ pc = "scanned"
    /\ bench = <<>>
    /\ bench' = << [stats |-> tree_stats(tree, result[1]), tree |-> tree] >>
    /\ files_scanned' = 0
    /\ dirs_scanned' = 0
    /\ errors' = 0
    /\ current_path' = <<>>
    /\ tree' = <<>>
    /\ result' = <<>>
    /\ ScanStart
    /\ UNCHANGED <<inputVars, cp_locked, bulkVars, sortVars, entries, reader, rdb, view,
                   extraVars>>

InitBench ==
    /\ platform = "macos"
    /\ scan_path \in UnixPaths
    /\ fs \in CleanSnapshots
    /\ mft_ok = FALSE /\ mft = NoMft
    /\ Start

NextBench ==
    \/ ScanBulkStart
    \/ \E d \in DOMAIN fs : ScanDirRecursive(d)
    \/ \E d \in DOMAIN fs : JoinDir(d)
    \/ ScanBulkFinish
    \/ SortNode
    \/ run_jwalk_scan
    \/ WalkEntry
    \/ BuildTree

SpecBench == InitBench /\ [][NextBench]_vars

\* C12: on an error-free single-device snapshot below the depth cap, scan_bulk
\* and scan + build_tree give the same root size, the same numbers of file and
\* directory nodes, the same set of nodes and the same size at every node.
C12_BulkEqualsGeneric ==
    (bench # <<>> /\ pc = "scanned") =>
        /\ tree_stats(tree, result[1]) = bench[1].stats
        /\ tree[0].size = bench[1].tree[0].size
        /\ DOMAIN tree = DOMAIN bench[1].tree
        /\ \A k \in DOMAIN tree :
              /\ tree[k].size = bench[1].tree[k].size
              /\ tree[k].is_dir = bench[1].tree[k].is_dir
              /\ Range(tree[k].children) = Range(bench[1].tree[k].children)

\* Both scanners have run on a root whose subdirectory holds files of 1 and
\* 2 bytes.
C12_Witness ==
    /\ bench # <<>>
    /\ pc = "scanned"
    /\ bench[1].stats = [files |-> 2, dirs |-> 2, size |-> 3]
    /\ \E d \in DOMAIN tree \ {0} : tree[d].is_dir /\ tree[d].size = 3

\* ------------------------------------------------- get_directory_view
\* The index paths a caller can send: child indices count from 0 and may lie
\* beyond any node's children.
NavPaths == UNION { [1..n -> 0..MaxEntries] : n \in 0..MaxNavLen }

RECURSIVE navigate_clamped(_, _, _)
\* A navigation that takes the last child for an index past the end.
navigate_clamped(t, node, nav) ==
    IF nav = <<>> THEN << <<node>> >>
    ELSE IF t[node].children = <<>> THEN <<>>
    ELSE LET idx == IF Head(nav) < Len(t[node].children) THEN Head(nav)
                    ELSE Len(t[node].children) - 1
             below == navigate_clamped(t, t[node].children[idx + 1], Tail(nav))
         IN IF below = <<>> THEN <<>> ELSE << <<node>> \o below[1] >>

RECURSIVE navigate(_, _, _)
\* The loop over nav_path from node: <<>> (return None) at the first index
\* that is not below children.len(), else << the nodes passed, the node
\* reached last >>.
navigate(t, node, nav) ==
    IF nav = <<>> THEN << <<node>> >>
    ELSE IF Head(nav) < Len(t[node].children)
         THEN LET below == navigate(t, t[node].children[Head(nav) + 1], Tail(nav))
              IN IF below = <<>> THEN <<>> ELSE << <<node>> \o below[1] >>
         ELSE <<>>

\* Some(DirectoryView { path, total_size, entries, item_count }) for the
\* nodes passed; path is kept as path_parts, node is the node shown.
DirectoryView(t, passed) ==
    LET node == passed[Len(passed)]
    IN [node |-> node,
        path |-> [i \in 1..Len(passed) |-> t[passed[i]].name],
        total_size |-> t[node].size,
        entries |-> [i \in 1..Len(t[node].children) |->
                        LET child == t[t[node].children[i]]
                        IN [name |-> child.name, size |-> child.size, is_dir |-> child.is_dir,
                            has_children |-> child.is_dir /\ child.children # <<>>]],
        item_count |-> Len(t[node].children)]

\* What get_directory_view returns once the sort is done: <<>> (None) or
\* <<DirectoryView>>.
ViewOf(t, root, nav) ==
    LET found == navigate(t, root, nav)
    IN IF found = <<>> THEN <<>> ELSE << DirectoryView(t, found[1]) >>

RECURSIVE SortedTrees(_, _, _)
\* sort_by_size / sort_by_name run to the end of the pending calls: the trees
\* the unstable sort can leave.
SortedTrees(t, mode, calls) ==
    IF calls = <<>> THEN {t}
    ELSE LET n == Head(calls)
         IN UNION { SortedTrees([t EXCEPT ![n].children = p], mode,
                                SortCalls(t, p) \o Tail(calls)) :
                      p \in SortUnstable(t, mode, t[n].children) }

\* get_directory_view(nav_path, sort_by_size), its arguments drawn from
\* NavPaths and BOOLEAN: None while no scan result is stored; else sort the whole tree from the root, then navigate.  The call
\* holds the scan_result lock until it returns, and returns before it reads
\* nav_path when there is no result.  A behaviour follows one request on the
\* stored result, after any number of requests made too early.
get_directory_view ==
    /\ view.pc = "idle" \/ ~view.stored
    /\ IF pc # "scanned"
       THEN /\ view' = [pc |-> "returned", nav |-> <<>>, stored |-> FALSE, out |-> <<>>]
            /\ UNCHANGED <<tree, sortMode>>
       ELSE \E by_size \in BOOLEAN :
              /\ sortMode' = IF by_size THEN "size" ELSE "name"
              /\ \E sorted \in SortedTrees(tree, sortMode', SortCalls(tree, result)) :
                    /\ tree' = sorted
                    /\ \E nav \in NavPaths :
                          view' = [pc |-> "returned", nav |-> nav, stored |-> TRUE,
                                   out |-> ViewOf(sorted, result[1], nav)]
    /\ UNCHANGED <<inputVars, pc, progressVars, cp_locked, bulkVars, result, sortQueue,
                   walkVars, entries, reader, rdb, bench, extraVars>>

\* The generic build on error-free snapshots, with a front end calling
\* get_directory_view at any time.
InitView ==
    /\ platform = "other"
    /\ scan_path \in UnixPaths
    /\ fs \in CleanSnapshots
    /\ mft_ok = FALSE /\ mft = NoMft
    /\ Start

NextView ==
    \/ DispatchGeneric
    \/ WalkEntry
    \/ BuildTree
    \/ SortNode
    \/ get_directory_view

SpecView == InitView /\ [][NextView]_vars

\* ------------------------------------------- bulk records, byte by byte
\* A record slice data = &buf[offset..offset + entry_length]: len is
\* data.len() in bytes and w its 4-byte words in order, w[k] covering bytes
\* 4(k-1)..4k (the last word cut short when len is no multiple of 4).  Name
\* data starts on a word boundary; a word read as a name is the string of its
\* nonzero bytes: 0 is "", 46 is ".", 46 + 256 * 46 is "..".
HasBit(x, bit) == (x \div bit) % 2 = 1

\* data[p..p + 4] is in range.
InRange(data, p, n) == p + n <= data.len

\* u32::from_ne_bytes / i32::from_ne_bytes of data[p..p + 4], p in range.
WordAt(data, p) == data.w[(p \div 4) + 1]

\* The NUL-terminated string at data[start..].
NameAt(data, start) ==
    LET word == WordAt(data, start)
    IN IF word = 0 THEN <<>>
       ELSE IF word < 256 THEN <<word>>
       ELSE <<word % 256, word \div 256>>

Dot == <<46>>
DotDot == <<46, 46>>

\* What a call of parse_bulk_entry ends in: Some(BulkEntry), None, or a panic
\* (a slice index out of range).
ParsedEntry(name, is_dir, size) == [kind |-> "entry", name |-> name, is_dir |-> is_dir, size |-> size]
ParseSkip == [kind |-> "skip"]
ParsePanic == [kind |-> "panic"]

\* parse_bulk_entry from the returned attribute words on: common and file are
\* the two words the parser took for returned.commonattr and
\* returned.fileattr; the cursor stands at byte 4 + ATTR_SET_SIZE.
ParseAfterAttrSet(data, common, file) ==
    LET hasErr == HasBit(common, ATTR_CMN_ERROR)
        base == 4 + ATTR_SET_SIZE
        pos1 == IF hasErr THEN base + 4 ELSE base
    IN IF hasErr /\ ~InRange(data, base, 4) THEN ParsePanic
       ELSE IF hasErr /\ WordAt(data, base) # 0 THEN ParseSkip
       ELSE IF ~HasBit(common, ATTR_CMN_NAME) THEN ParseSkip
       ELSE IF ~InRange(data, pos1, 4) \/ ~InRange(data, pos1 + 4, 4) THEN ParsePanic
       ELSE LET name_data_start == pos1 + WordAt(data, pos1)
                pos2 == pos1 + 8
            IN IF name_data_start < 0 \/ name_data_start >= data.len THEN ParseSkip
               ELSE IF NameAt(data, name_data_start) \in {Dot, DotDot} THEN ParseSkip
               ELSE IF ~HasBit(common, ATTR_CMN_OBJTYPE) THEN ParseSkip
               ELSE IF ~InRange(data, pos2, 4) THEN ParsePanic
               ELSE LET is_dir == WordAt(data, pos2) = VDIR
                        pos3 == pos2 + 4
                    IN IF ~is_dir /\ HasBit(file, ATTR_FILE_DATALENGTH)
                       THEN IF ~InRange(data, pos3, 8) THEN ParsePanic
                            ELSE ParsedEntry(NameAt(data, name_data_start), FALSE,
                                             WordAt(data, pos3))
                       ELSE ParsedEntry(NameAt(data, name_data_start), is_dir, 0)

\* disku-core's parse_bulk_entry: returned.commonattr from data[4..8],
\* returned.fileattr from data[16..20].
core_parse_bulk_entry(data) ==
    IF data.len < 4 + ATTR_SET_SIZE THEN ParseSkip
    ELSE ParseAfterAttrSet(data, WordAt(data, 4), WordAt(data, 4 + 12))

\* The older parse_bulk_entry of src/src: pos + 4 and pos + 16 with pos = 4,
\* that is data[8..12] and data[20..24].
src_parse_bulk_entry(data) ==
    IF data.len < 4 + 20 THEN ParseSkip
    ELSE ParseAfterAttrSet(data, WordAt(data, 4 + 4), WordAt(data, 4 + 16))

\* The records of the documented layout: entry length, attribute_set_t
\* { commonattr, volattr, dirattr, fileattr, forkattr }, then the attributes
\* returned, in order: error, name reference { offset, length }, object type,
\* data length (two words), and the name data the reference points at,
\* offset being counted from the reference itself.
\*   f.err     : -1 (ATTR_CMN_ERROR not returned) or the error code
\*   f.named, f.typed, f.sized : the attribute was returned
\*   f.skew    : added to the name offset (0 in a record of the layout)
\*   f.cut     : bytes cut off the end by a short entry length
RecordFields ==
    [err : {0 - 1, 0, 1}, named : BOOLEAN, typed : BOOLEAN, sized : BOOLEAN,
     is_dir : BOOLEAN, name : {<<98>>, Dot, DotDot}, size : FileSizes,
     skew : {0, 0 - 8, 0 - 64, 64}, cut : 0..12]

NameWord(name) == IF Len(name) = 1 THEN name[1] ELSE name[1] + 256 * name[2]

Encode(f) ==
    LET common == (IF f.err < 0 THEN 0 ELSE ATTR_CMN_ERROR)
                    + (IF f.named THEN ATTR_CMN_NAME ELSE 0)
                    + (IF f.typed THEN ATTR_CMN_OBJTYPE ELSE 0)
        sized == f.sized /\ ~f.is_dir
        file == IF sized THEN ATTR_FILE_DATALENGTH ELSE 0
        errW == IF f.err < 0 THEN <<>> ELSE <<f.err>>
        typeW == IF f.typed THEN << IF f.is_dir THEN VDIR ELSE VDIR - 1 >> ELSE <<>>
        sizeW == IF sized THEN <<f.size, 0>> ELSE <<>>
        \* words between the reference's own start and the name data
        gap == 2 + Len(typeW) + Len(sizeW)
        nameW == IF f.named THEN <<4 * gap + f.skew, Len(f.name) + 1>> ELSE <<>>
        tail == IF f.named THEN <<NameWord(f.name)>> ELSE <<>>
        body == <<common, 0, 0, file, 0>> \o errW \o nameW \o typeW \o sizeW \o tail
        full == 4 * (Len(body) + 1)
        len == IF f.cut >= full THEN 1 ELSE full - f.cut
    IN [len |-> len, w |-> SubSeq(<<full>> \o body, 1, (len + 3) \div 4)]

\* The record describes an entry a scanner must list, as the layout has it.
Listable(f) ==
    /\ f.err <= 0 /\ f.named /\ f.typed
    /\ f.name \notin {Dot, DotDot}
    /\ f.skew = 0 /\ f.cut = 0

\* A test harness hands one record to disku-core's parser,
ParseCore ==
    /\ rec.pc = "idle"
    /\ \E f \in RecordFields :
          rec' = [pc |-> "parsed", by |-> "core", fields |-> f,
                  out |-> core_parse_bulk_entry(Encode(f))]
    /\ UNCHANGED <<inputVars, pc, progressVars, cp_locked, bulkVars, tree, result, sortVars,
                   walkVars, entries, reader, rdb, view, bench, app, svc>>

\* or to the parser of src/src.
ParseSrc ==
    /\ rec.pc = "idle"
    /\ \E f \in RecordFields :
          rec' = [pc |-> "parsed", by |-> "src", fields |-> f,
                  out |-> src_parse_bulk_entry(Encode(f))]
    /\ UNCHANGED <<inputVars, pc, progressVars, cp_locked, bulkVars, tree, result, sortVars,
                   walkVars, entries, reader, rdb, view, bench, app, svc>>

\* One buffer getattrlistbulk filled: its records in order, each a record of
\* the layout with its length field as written ("ok"), zero, running past
\* the end of the buffer ("past"), or reaching exactly the end of the buffer
\* ("fill", the rest being padding).  count is the number of records.
BufferRecords ==
    [kind : {"file", "dir", "errored", "dot"}, length : {"ok", "zero", "past", "fill"}]

FieldsOf(r) ==
    [err |-> IF r.kind = "errored" THEN 1 ELSE 0, named |-> TRUE, typed |-> TRUE,
     sized |-> TRUE, is_dir |-> (r.kind = "dir"),
     name |-> IF r.kind = "dot" THEN Dot ELSE <<98>>, size |-> 2, skew |-> 0, cut |-> 0]

\* The length field of record r when it starts at byte start of the buffer.
EntryLength(r, start) ==
    CASE r.length = "ok" -> Encode(FieldsOf(r)).len
      [] r.length = "zero" -> 0
      [] r.length = "past" -> BULK_BUF_SIZE - start + 4
      [] r.length = "fill" -> BULK_BUF_SIZE - start

\* Where the records of the buffer start.
StartOf(b) ==
    LET st[i \in 1..(Len(b) + 1)] ==
            IF i = 1 THEN 0 ELSE st[i - 1] + EntryLength(b[i - 1], st[i - 1])
    IN st

\* The record the cursor stands on.
RecordAt(b, offset) == CHOOSE i \in 1..Len(b) : StartOf(b)[i] = offset

\* read_dir_bulk after a call returned count > 0: the cursor at the start of
\* the buffer.
BufferStart ==
    /\ rec.pc = "idle"
    /\ \E b \in UNION { [1..n -> BufferRecords] : n \in 1..MaxEntries } :
          rec' = [pc |-> "loop", buf |-> b, count |-> Len(b), turn |-> 0, offset |-> 0,
                  high |-> 0, parsed |-> 0, results |-> <<>>]
    /\ UNCHANGED <<inputVars, pc, progressVars, cp_locked, bulkVars, tree, result, sortVars,
                   walkVars, entries, reader, rdb, view, bench, app, svc>>

\* A record loop that moves the cursor only past a record that parsed.
BufferRecordStuck ==
    /\ rec.pc = "loop"
    /\ IF rec.turn = rec.count \/ rec.offset + 4 > BULK_BUF_SIZE
       THEN rec' = [rec EXCEPT !.pc = "buffer_done"]
       ELSE \E r \in {rec.buf[RecordAt(rec.buf, rec.offset)]} :
            \E entry_length \in {EntryLength(r, rec.offset)} :
              IF entry_length = 0 \/ rec.offset + entry_length > BULK_BUF_SIZE
              THEN rec' = [rec EXCEPT !.pc = "buffer_done", !.high = rec.offset + 4]
              ELSE \E e \in {core_parse_bulk_entry([len |-> entry_length,
                                                    w |-> Encode(FieldsOf(r)).w])} :
                     rec' = [rec EXCEPT !.turn = @ + 1,
                                        !.high = rec.offset + entry_length,
                                        !.parsed = @ + 1,
                                        !.results = IF e.kind = "entry" THEN Append(@, e) ELSE @,
                                        !.offset = IF e.kind = "entry" THEN @ + entry_length ELSE @]
    /\ UNCHANGED <<inputVars, pc, progressVars, cp_locked, bulkVars, tree, result, sortVars,
                   walkVars, entries, reader, rdb, view, bench, app, svc>>

\* One turn of `for _ in 0..count`: leave the loop when fewer than 4 bytes
\* are left, read entry_length, leave the loop when it is 0 or runs past the
\* buffer, else parse &buf[offset..offset + entry_length], push what parsed
\* and add entry_length to the cursor.  high is the end of the last slice
\* taken from buf, parsed the number of slices handed to the parser.
BufferRecord ==
    /\ rec.pc = "loop"
    /\ IF rec.turn = rec.count \/ rec.offset + 4 > BULK_BUF_SIZE
       THEN rec' = [rec EXCEPT !.pc = "buffer_done"]
       ELSE \E r \in {rec.buf[RecordAt(rec.buf, rec.offset)]} :
            \E entry_length \in {EntryLength(r, rec.offset)} :
              IF entry_length = 0 \/ rec.offset + entry_length > BULK_BUF_SIZE
              THEN rec' = [rec EXCEPT !.pc = "buffer_done", !.high = rec.offset + 4]
              ELSE \E e \in {core_parse_bulk_entry([len |-> entry_length,
                                                    w |-> Encode(FieldsOf(r)).w])} :
                     rec' = [rec EXCEPT !.turn = @ + 1,
                                        !.high = rec.offset + entry_length,
                                        !.parsed = @ + 1,
                                        !.results = IF e.kind = "entry" THEN Append(@, e) ELSE @,
                                        !.offset = @ + entry_length]
    /\ UNCHANGED <<inputVars, pc, progressVars, cp_locked, bulkVars, tree, result, sortVars,
                   walkVars, entries, reader, rdb, view, bench, app, svc>>

InitParse ==
    /\ platform = "macos"
    /\ scan_path \in UnixPaths
    /\ fs \in Shapes(0)
    /\ mft_ok = FALSE /\ mft = NoMft
    /\ Start

NextParse ==
    \/ ParseCore
    \/ ParseSrc
    \/ BufferStart
    \/ BufferRecord

SpecParse == InitParse /\ [][NextParse]_vars

\* ------------------------- get_directory_view, two requests in a row
\* get_directory_view(nav_path, sort_by_size) on the stored result, for an
\* index path that the views under this mode lead to: sort from the root,
\* navigate.  node is the node the view shows.
ViewUnderOneMode ==
    /\ pc = "scanned"
    /\ view.pc = "idle"
    /\ \E by_size \in BOOLEAN :
         /\ sortMode' = IF by_size THEN "size" ELSE "name"
         /\ \E sorted \in SortedTrees(tree, sortMode', SortCalls(tree, result)) :
               /\ tree' = sorted
               /\ \E nav \in NavPaths :
                     /\ ViewOf(sorted, result[1], nav) # <<>>
                     /\ view' = [pc |-> "returned", stored |-> TRUE, by_size |-> by_size,
                                 nav |-> nav, node |-> ViewOf(sorted, result[1], nav)[1].node]
    /\ UNCHANGED <<inputVars, pc, progressVars, cp_locked, bulkVars, result, sortQueue,
                   walkVars, entries, reader, rdb, bench, extraVars>>

\* The same index path sent again with the other sort mode: again <<>> is
\* None.
ViewUnderOtherMode ==
    /\ pc = "scanned"
    /\ view.pc = "returned"
    /\ sortMode' = IF view.by_size THEN "name" ELSE "size"
    /\ \E sorted \in SortedTrees(tree, sortMode', SortCalls(tree, result)) :
          /\ tree' = sorted
          /\ view' = [pc |-> "again", stored |-> TRUE, by_size |-> ~view.by_size,
                      nav |-> view.nav, node |-> view.node,
                      out |-> ViewOf(sorted, result[1], view.nav)]
    /\ UNCHANGED <<inputVars, pc, progressVars, cp_locked, bulkVars, result, sortQueue,
                   walkVars, entries, reader, rdb, bench, extraVars>>

InitNav == InitView

NextNav ==
    \/ DispatchGeneric
    \/ WalkEntry
    \/ BuildTree
    \/ SortNode
    \/ ViewUnderOneMode
    \/ ViewUnderOtherMode

SpecNav == InitNav /\ [][NextNav]_vars

\* ------------------------------------------- start_scan, more than once
\* What no action of the desktop service touches.
svcFrame == <<inputVars, pc, progressVars, cp_locked, bulkVars, tree, result, sortVars,
              walkVars, entries, reader, rdb, view, bench, rec, app>>

\* "/x", "/y"
ServicePaths == { <<47, 120>>, <<47, 121>> }

\* AppState::default(): scan_result None, nothing started.  thread[k] and
\* reporter[k] are the positions of the two threads of invocation k, done[k]
\* its scan_done flag, events[k] what its channel has been sent last, seen
\* what get_directory_view returned last and after how many invocations.
AppState_default ==
    [pc |-> "serving", started |-> 0, scan_result |-> <<>>, path |-> <<>>, thread |-> <<>>,
     reporter |-> <<>>, done |-> <<>>, events |-> <<>>, seen |-> [at |-> 0, of |-> <<>>]]

Service == IF svc.pc = "idle" THEN AppState_default ELSE svc

\* The tree the scan of invocation k returns.
TreeOf(k) == [scan |-> k, path |-> Service.path[k]]

\* start_scan(path, on_event, state): clear the previous result, spawn the
\* reporter and the scan thread, return.  Nothing stops or waits for the
\* threads of an earlier invocation.
start_scan ==
    /\ Service.started < MaxScans
    /\ \E path \in ServicePaths :
          svc' = [Service EXCEPT !.started = @ + 1,
                                 !.scan_result = <<>>,
                                 !.path = Append(@, path),
                                 !.thread = Append(@, "scanning"),
                                 !.reporter = Append(@, "sleep"),
                                 !.done = Append(@, FALSE),
                                 !.events = Append(@, "none")]
    /\ UNCHANGED svcFrame

\* The scan thread of invocation k: the platform's scan returns its root,
ScanThreadScan(k) ==
    /\ k \in 1..Service.started
    /\ svc.thread[k] = "scanning"
    /\ svc' = [svc EXCEPT !.thread[k] = "returned"]
    /\ UNCHANGED svcFrame

\* *result = Some(root) under the scan_result lock,
ScanThreadStore(k) ==
    /\ k \in 1..Service.started
    /\ svc.thread[k] = "returned"
    /\ svc' = [svc EXCEPT !.thread[k] = "stored", !.scan_result = <<TreeOf(k)>>]
    /\ UNCHANGED svcFrame

\* scan_done.store(true),
ScanThreadFlag(k) ==
    /\ k \in 1..Service.started
    /\ svc.thread[k] = "stored"
    /\ svc' = [svc EXCEPT !.thread[k] = "flagged", !.done[k] = TRUE]
    /\ UNCHANGED svcFrame

\* progress_handle.join() and the Complete event.
ScanThreadComplete(k) ==
    /\ k \in 1..Service.started
    /\ svc.thread[k] = "flagged"
    /\ svc.reporter[k] = "exited"
    /\ svc' = [svc EXCEPT !.thread[k] = "complete", !.events[k] = "Complete"]
    /\ UNCHANGED svcFrame

\* One turn of the reporter of invocation k: a Progress event, then leave
\* if done_flag is set.
ReporterTurn(k) ==
    /\ k \in 1..Service.started
    /\ svc.reporter[k] = "sleep"
    /\ svc' = [svc EXCEPT !.events[k] = "Progress",
                          !.reporter[k] = IF svc.done[k] THEN "exited" ELSE "sleep"]
    /\ UNCHANGED svcFrame

\* get_directory_view as far as `result.as_mut()?`: None, or a view of the
\* tree scan_result holds.
ViewStoredResult ==
    /\ svc' = [Service EXCEPT !.seen = [at |-> Service.started, of |-> Service.scan_result]]
    /\ UNCHANGED svcFrame

InitService ==
    /\ platform = "other"
    /\ scan_path \in UnixPaths
    /\ fs \in Shapes(0)
    /\ mft_ok = FALSE /\ mft = NoMft
    /\ Start

NextService ==
    \/ start_scan
    \/ \E k \in 1..MaxScans : ScanThreadScan(k)
    \/ \E k \in 1..MaxScans : ScanThreadStore(k)
    \/ \E k \in 1..MaxScans : ScanThreadFlag(k)
    \/ \E k \in 1..MaxScans : ScanThreadComplete(k)
    \/ \E k \in 1..MaxScans : ReporterTurn(k)
    \/ ViewStoredResult

SpecService == InitService /\ [][NextService]_vars

\* ------------------------------------------------------------ TUI App
\* What no App action touches.
appFrame == <<inputVars, pc, progressVars, cp_locked, bulkVars, tree, result, sortVars,
              walkVars, entries, reader, rdb, view, bench, rec, svc>>

\* App::current / current_mut: node = &node.children[idx] along nav_path;
\* <<>> stands for the index out of bounds (a panic), else << nodes passed >>.
current(a) == navigate(a.tree, a.root, a.nav_path)

\* The children of the node current() returns.
CurrentChildren(a) == a.tree[current(a)[1][Len(current(a)[1])]].children

\* App::new(root): the App takes the scanned tree; list_state selects the
\* first child when there is one; sort_by_size starts true.
App_new ==
    /\ pc = "scanned"
    /\ app.pc = "idle"
    /\ app' = [pc |-> "running", tree |-> tree, root |-> result[1], nav_path |-> <<>>,
               selected |-> IF tree[result[1]].children # <<>> THEN <<0>> ELSE <<>>,
               sort_by_size |-> TRUE]
    /\ UNCHANGED appFrame

move_up ==
    /\ app.pc = "running"
    /\ app' = IF app.selected # <<>> /\ app.selected[1] > 0
              THEN [app EXCEPT !.selected = <<app.selected[1] - 1>>]
              ELSE app
    /\ UNCHANGED appFrame

move_down ==
    /\ app.pc = "running"
    /\ app' = IF app.selected = <<>> THEN app
              ELSE IF current(app) = <<>> THEN [app EXCEPT !.pc = "panicked"]
              ELSE IF app.selected[1] + 1 < Len(CurrentChildren(app))
                   THEN [app EXCEPT !.selected = <<app.selected[1] + 1>>]
                   ELSE app
    /\ UNCHANGED appFrame

enter ==
    /\ app.pc = "running"
    /\ app' = IF app.selected = <<>> THEN app
              ELSE IF current(app) = <<>> THEN [app EXCEPT !.pc = "panicked"]
              ELSE LET i == app.selected[1]
                       ch == CurrentChildren(app)
                   IN IF i < Len(ch) /\ app.tree[ch[i + 1]].is_dir
                                     /\ app.tree[ch[i + 1]].children # <<>>
                      THEN [app EXCEPT !.nav_path = Append(@, i), !.selected = <<0>>]
                      ELSE app
    /\ UNCHANGED appFrame

\* A go_back that pops without moving the selection to the first row.
go_back_keeping_selection ==
    /\ app.pc = "running"
    /\ app' = IF app.nav_path # <<>>
              THEN [app EXCEPT !.nav_path = SubSeq(@, 1, Len(@) - 1)]
              ELSE app
    /\ UNCHANGED appFrame

go_back ==
    /\ app.pc = "running"
    /\ app' = IF app.nav_path # <<>>
              THEN [app EXCEPT !.nav_path = SubSeq(@, 1, Len(@) - 1), !.selected = <<0>>]
              ELSE app
    /\ UNCHANGED appFrame

\* toggle_sort: flip the flag, then sort the current node and everything
\* below it in the new order; nodes outside the current subtree stay as
\* they are.
toggle_sort ==
    /\ app.pc = "running"
    /\ IF current(app) = <<>>
       THEN app' = [app EXCEPT !.pc = "panicked", !.sort_by_size = ~@]
       ELSE LET by_size == ~app.sort_by_size
                node == current(app)[1][Len(current(app)[1])]
            IN \E sorted \in SortedTrees(app.tree, IF by_size THEN "size" ELSE "name",
                                         SortCalls(app.tree, <<node>>)) :
                  app' = [app EXCEPT !.sort_by_size = by_size, !.tree = sorted]
    /\ UNCHANGED appFrame

\* The generic build on error-free snapshots, then the TUI on its result.
InitApp ==
    /\ platform = "other"
    /\ scan_path \in UnixPaths
    /\ fs \in CleanSnapshots
    /\ mft_ok = FALSE /\ mft = NoMft
    /\ Start

NextApp ==
    \/ DispatchGeneric
    \/ WalkEntry
    \/ BuildTree
    \/ SortNode
    \/ App_new
    \/ move_up
    \/ move_down
    \/ enter
    \/ go_back
    \/ toggle_sort

SpecApp == InitApp /\ [][NextApp]_vars

\* ------------------------------------------------------------- properties
\* The scanner has returned its tree (and no sort call is running).
Scanned == pc = "scanned"

\* The tree came from scan_bulk or from scan + build_tree (not from the MFT).
BulkRan == platform = "macos" /\ Scanned
GenericRan == platform # "macos" /\ Scanned /\ result = <<0>>

\* A directory whose entries a scanner can list on the root's device.
Enumerable(d) == fs[d].fault \notin {"unreadable", "otherdev"}

RECURSIVE Reached(_)
\* Entry e lies below the root through directories that can be listed.
Reached(e) == e = 0 \/ (Enumerable(fs[e].parent) /\ Reached(fs[e].parent))

FileKeys == { k \in DOMAIN tree : ~tree[k].is_dir }
DirKeys == { k \in DOMAIN tree : tree[k].is_dir }

\* C1: in the tree a scanner returned, also after any sort_by_size and
\* sort_by_name calls on any of its nodes, every directory node's size is the
\* sum of the sizes of its direct children.
C1_SizeIsSumOfChildren ==
    Scanned => \A k \in DirKeys : tree[k].size = SumSizes(tree, tree[k].children)

\* A nested directory with two files of sizes 1 and 2, after a sort_by_name.
C1_Witness ==
    /\ Scanned
    /\ sortMode = "name"
    /\ \E k \in DirKeys : /\ <<k>> # result
                          /\ Len(tree[k].children) >= 2
                          /\ tree[k].size = 3

\* C2: after a bulk scan every entry reachable from the root has caused an
\* increment of files_scanned, dirs_scanned or errors.
C2_EveryEntryAccounted ==
    BulkRan =>
        files_scanned + dirs_scanned + errors
            >= Cardinality({ e \in DOMAIN fs \ {0} : Reached(e) })

\* The children scan_dir_recursive returns for a directory that can be
\* listed: its readable files, then its subdirectories on the root's device.
ExpectedChildren(d) ==
    SelectSeq(Listing(fs, d), LAMBDA i : fs[i].kind = "file" /\ fs[i].fault # "bad")
      \o SelectSeq(Listing(fs, d), LAMBDA i : fs[i].kind = "dir" /\ fs[i].fault # "otherdev")

\* The directories scan_dir_recursive is called on.
Descended == { d \in DOMAIN fs : fs[d].kind = "dir" /\ Reached(d) /\ fs[d].fault # "otherdev" }

\* C3: a directory is enumerated by the readdir+stat fallback exactly when its
\* own bulk read fails; every other directory, the subdirectories of a
\* fallback directory included, is enumerated on the bulk path; every
\* directory returns its entries whichever path listed them; the scan is never
\* stuck and returns a tree.
C3_FallbackIsPerDirectory ==
    /\ (platform = "macos" /\ pc = "bulk") =>
          ENABLED ((\E d \in DOMAIN fs : ScanDirRecursive(d))
                      \/ (\E d \in DOMAIN fs : JoinDir(d)) \/ ScanBulkFinish)
    /\ BulkRan =>
          /\ result = <<0>>
          /\ \A d \in Descended :
                /\ task[d].st = "done"
                /\ task[d].via = IF fs[d].fault \in {"bulkfail", "unreadable"}
                                 THEN "fallback" ELSE "bulk"
                /\ ret[d] = IF fs[d].fault = "unreadable" THEN <<>> ELSE ExpectedChildren(d)
                /\ Range(ret[d]) \subseteq DOMAIN tree
                /\ Range(tree[d].children) = Range(ret[d])

\* A directory read by the fallback, beside a sibling file that is in the
\* tree, holding a subdirectory that was read on the bulk path.
C3_Witness ==
    /\ BulkRan
    /\ \E d \in DOMAIN fs \ {0} :
          /\ fs[d].fault = "bulkfail"
          /\ task[d].via = "fallback"
          /\ task[fs[d].parent].via = "bulk"
          /\ \E c \in Range(tree[d].children) : tree[c].is_dir /\ task[c].via = "bulk"
          /\ \E f \in Range(tree[fs[d].parent].children) : ~tree[f].is_dir

\* "C:" or "C:\": the root of a drive-letter volume.
IsVolumeRoot(path) == HasDriveLetter(path) /\ Len(path) <= 3

\* C4: on Windows the MFT scanner is attempted only for a volume root, and a
\* scan of any other root returns a tree rooted at the requested path.
C4_MftOnlyForVolumeRoot ==
    platform = "windows" =>
        /\ pc \in {"mft", "mft_iterate", "mft_build"} => IsVolumeRoot(scan_path)
        /\ (Scanned /\ ~IsVolumeRoot(scan_path)) => tree[result[1]].name = scan_path

\* C5: in the generic scanner an entry whose metadata cannot be read is not in
\* the flat sequence, not in the tree, and errors was incremented once for it.
C5_UnreadableMetadataSkipped ==
    GenericRan =>
        \A e \in DOMAIN fs :
            (fs[e].fault = "bad" /\ Reached(e)) =>
                /\ e \notin DOMAIN tree
                /\ \A k \in DOMAIN flat : flat[k].path # e
                /\ errors = 1

\* C6: after an error-free bulk or generic scan files_scanned is the number of
\* file nodes and dirs_scanned the number of directory nodes other than the root.
C6_CountersMatchTree ==
    (Scanned /\ result = <<0>> /\ errors = 0) =>
        /\ files_scanned = Cardinality(FileKeys)
        /\ dirs_scanned = Cardinality(DirKeys \ {0})

\* C7: a subdirectory on another device is not descended, is in the tree with
\* size 0 and no children, and errors is not incremented for it.
C7_CrossDeviceReportedEmpty ==
    BulkRan =>
        \A e \in DOMAIN fs :
            (fs[e].fault = "otherdev" /\ Reached(e)) =>
                /\ task[e].st = "idle"
                /\ errors = 0
                /\ e \in DOMAIN tree
                /\ tree[e].size = 0
                /\ tree[e].children = <<>>

\* C8: a directory reached at recursion depth exactly MAX_DEPTH has its own
\* entries enumerated and counted, none of its subdirectories is descended, and
\* stopping at the cap increments no error.
C8_CapLevelIsProcessed ==
    Scanned =>
        /\ (\A e \in DOMAIN fs : fs[e].fault = "none") => errors = 0
        /\ \A d \in DOMAIN fs :
              (task[d].st = "done" /\ task[d].depth = MAX_DEPTH) =>
                  /\ task[d].via # "none"
                  /\ \A e \in Range(Listing(fs, d)) :
                        IF fs[e].kind = "file" THEN e \in DOMAIN tree
                        ELSE task[e].st = "idle"

\* C9: when the root cannot be opened or read the scan returns a directory
\* node with no children and size 0, named after the requested root, and
\* errors is greater than 0.
C9_UnreachableRoot ==
    (Scanned /\ result = <<0>> /\ fs[0].fault = "unreadable") =>
        /\ tree[0].is_dir
        /\ tree[0].children = <<>>
        /\ tree[0].size = 0
        /\ tree[0].name \in {scan_path, BulkRootName(scan_path)}
        /\ errors > 0

\* C10: on Windows with a drive-letter root, when scan_mft returns None the
\* fallback scan starts from untouched Progress counters and an empty tree,
\* the counters afterwards hold the generic walk's own increments only, and
\* the tree returned is the generic one, rooted at the requested path.
C10_FailedMftLeavesNoTrace ==
    (platform = "windows" /\ HasDriveLetter(scan_path) /\ ~mft_ok) =>
        /\ entries = <<>>
        /\ pc \notin {"mft_iterate", "mft_build", "crashed"}
        /\ (pc = "walk" /\ flat = <<>> /\ walkStack = <<0>>) =>
              /\ files_scanned = 0 /\ dirs_scanned = 0 /\ errors = 0
              /\ current_path = <<>> /\ tree = <<>> /\ result = <<>>
        /\ pc \in {"walk", "sorting", "scanned"} =>
              /\ files_scanned = Cardinality({ k \in DOMAIN flat : ~flat[k].is_dir })
              /\ dirs_scanned = Cardinality({ k \in DOMAIN flat : flat[k].is_dir })
        /\ Scanned =>
              /\ result = <<0>>
              /\ tree[0].name = scan_path
              /\ DOMAIN tree = { flat[k].path : k \in DOMAIN flat }

\* A failed MFT attempt on "C:\" followed by a generic scan that counted a
\* file and a subdirectory.
C10_Witness ==
    /\ platform = "windows" /\ IsVolumeRoot(scan_path) /\ ~mft_ok
    /\ Scanned
    /\ files_scanned >= 1
    /\ dirs_scanned >= 2


\* The children scan_dir_recursive returns for directory d of the snapshot.
ExpKids(d) == IF fs[d].fault = "unreadable" THEN <<>> ELSE ExpectedChildren(d)

RECURSIVE Kept(_)
\* Entry e of the snapshot gets a node in the bulk scanner's tree.
Kept(e) ==
    e = 0 \/ (e \in Range(ExpKids(fs[e].parent)) /\ Kept(fs[e].parent))

RECURSIVE ExpectedSize(_)
RECURSIVE SumExpected(_)
\* The size of entry e's node as the snapshot alone determines it.
ExpectedSize(e) ==
    IF fs[e].kind = "file" THEN fs[e].size ELSE SumExpected(ExpKids(e))
SumExpected(ch) ==
    IF ch = <<>> THEN 0 ELSE ExpectedSize(Head(ch)) + SumExpected(Tail(ch))

\* The increments the snapshot alone determines: a file per file node, a
\* directory per listed subdirectory, an error per failed read_dir and per
\* failed stat on the fallback path.
ExpectedFiles == Cardinality({ e \in DOMAIN fs : fs[e].kind = "file" /\ Kept(e) })
ExpectedDirs == Cardinality({ e \in DOMAIN fs \ {0} : fs[e].kind = "dir" /\ Reached(e) })
ExpectedErrors ==
    Cardinality({ d \in Descended : fs[d].fault = "unreadable" })
      + Cardinality({ e \in DOMAIN fs \ {0} :
                        fs[e].fault = "bad" /\ Reached(e) /\ fs[fs[e].parent].fault = "bulkfail" })

\* C11: whatever the order in which the parallel sibling-directory tasks of
\* scan_bulk ran, the tree returned (its set of nodes, the children and the
\* size of every node) and the final files_scanned, dirs_scanned and errors
\* are the ones the filesystem snapshot alone determines.
C11_InterleavingIndependent ==
    BulkRan =>
        /\ DOMAIN tree = { e \in DOMAIN fs : Kept(e) }
        /\ \A k \in DOMAIN tree :
              /\ tree[k].is_dir = (fs[k].kind = "dir")
              /\ tree[k].size = ExpectedSize(k)
              /\ Len(tree[k].children) = Len(ExpKids(k))
              /\ Range(tree[k].children) = Range(ExpKids(k))
        /\ files_scanned = ExpectedFiles
        /\ dirs_scanned = ExpectedDirs
        /\ errors = ExpectedErrors

\* Two sibling directories of which the one listed first was the last
\* directory of the whole scan to start (it wrote current_path last), the
\* other holding a file.
C11_Witness ==
    /\ BulkRan
    /\ \E d1, d2 \in DirKeys \ {0} :
          /\ d1 < d2
          /\ fs[d1].parent = fs[d2].parent
          /\ current_path = <<d1>>
          /\ tree[d2].size > 0
          /\ tree[fs[d1].parent].size = tree[d1].size + tree[d2].size


\* C13: the descriptor read_dir_bulk opens is closed exactly once before it
\* returns, on every exit path (failed open: none was opened; failed call;
\* end of the enumeration; with or without a record that broke the parse
\* loop); it is open only inside read_dir_bulk, so none is open while the
\* directory's subdirectories are scanned or when the scan returns.
C13_DescriptorClosedOnce ==
    /\ rdb.pc # "idle" =>
          /\ rdb.closes <= rdb.opens
          /\ rdb.opens <= 1
          /\ (rdb.fd = "open") = (rdb.pc = "loop")
          /\ rdb.pc \in {"returned", "done"} =>
                /\ rdb.closes = rdb.opens
                /\ rdb.opens = (IF rdb.open_ok THEN 1 ELSE 0)
          /\ rdb.fd = "open" =>
                /\ task[rdb.dir].st = "reading"
                /\ \A c \in DOMAIN fs \ {0} : fs[c].parent = rdb.dir => task[c].st = "idle"
    /\ pc \in {"sorting", "scanned"} => (rdb.pc \in {"idle", "done"})

\* read_dir_bulk returned None from its second call, after a first buffer in
\* which a record with a bad length field broke the parse loop; the
\* descriptor was closed once.
C13_Witness ==
    /\ rdb.pc = "returned"
    /\ rdb.good_calls = 1
    /\ rdb.broke
    /\ rdb.ret = <<>>
    /\ rdb.fd = "closed"
    /\ rdb.closes = 1

\* C20: once a bulk call on a directory has succeeded, a later failing call
\* on the same directory does not switch it to the readdir+stat fallback.
C20_CommitsToBulk ==
    (rdb.pc = "done" /\ rdb.good_calls >= 1) => task[rdb.dir].via = "bulk"


\* C14: get_directory_view on a stored scan result returns the view of the
\* node reached by following the index path from the root when every index is
\* below the number of children of the node it is applied to, and None when
\* some index is not; without a stored result it returns None.
C14_NavigateOrNone ==
    view.pc = "returned" =>
        IF ~view.stored THEN view.out = <<>>
        ELSE LET n == Len(view.nav)
                 \* at[i]: the node i indices below the root, -1 when some
                 \* index up to the i-th is out of bounds
                 at[i \in 0..n] ==
                     IF i = 0 THEN result[1]
                     ELSE IF at[i - 1] = -1 THEN -1
                     ELSE IF view.nav[i] >= Len(tree[at[i - 1]].children) THEN -1
                     ELSE tree[at[i - 1]].children[view.nav[i] + 1]
             IN IF at[n] = -1 THEN view.out = <<>>
                ELSE /\ view.out # <<>>
                     /\ view.out[1].node = at[n]
                     /\ view.out[1].total_size = tree[at[n]].size
                     /\ view.out[1].item_count = Len(tree[at[n]].children)
                     /\ view.out[1].path = [i \in 1..(n + 1) |-> tree[at[i - 1]].name]

\* A view of a file two levels below the root, reached by the index path
\* <<0, 1>> after a sort by name.
C14_Witness ==
    /\ view.pc = "returned"
    /\ view.stored
    /\ sortMode = "name"
    /\ view.nav = <<0, 1>>
    /\ view.out # <<>>
    /\ ~tree[view.out[1].node].is_dir
    /\ view.out[1].total_size = 2


\* C15: a step of sort_by_size or sort_by_name only permutes siblings: the
\* tree keeps its nodes, every node keeps its name, size and kind, and every
\* node's children are the same nodes as before, each exactly once.
C15_SortsOnlyPermute ==
    [][ (pc \in {"sorting", "scanned"}) =>
          (/\ DOMAIN tree' = DOMAIN tree
          /\ \A k \in DOMAIN tree :
                /\ tree'[k].name = tree[k].name
                /\ tree'[k].size = tree[k].size
                /\ tree'[k].is_dir = tree[k].is_dir
                /\ Len(tree'[k].children) = Len(tree[k].children)
                /\ \A c \in Range(tree[k].children) :
                      Cardinality({ i \in 1..Len(tree'[k].children) : tree'[k].children[i] = c })
                        = Cardinality({ i \in 1..Len(tree[k].children) : tree[k].children[i] = c }))
      ]_vars

\* After a sort by name on a tree that was sorted by size: two siblings stand
\* in name order with the smaller one first.
C15_Witness ==
    /\ pc = "scanned"
    /\ sortMode = "name"
    /\ \E k \in DOMAIN tree :
          /\ Len(tree[k].children) >= 2
          /\ tree[tree[k].children[1]].size < tree[tree[k].children[2]].size


C17_ReturnedTreeSortedBySize ==
    pc = "scanned" =>
        \A k \in DOMAIN tree :
            \A i \in 1..(Len(tree[k].children) - 1) :
                tree[tree[k].children[i]].size >= tree[tree[k].children[i + 1]].size

\* A returned tree in which a directory below the root lists a larger file
\* before a smaller one that the filesystem listed first.
C17_Witness ==
    /\ pc = "scanned"
    /\ result = <<0>>
    /\ \E k \in DOMAIN tree \ {0} :
          /\ Len(tree[k].children) >= 2
          /\ tree[k].children[1] > tree[k].children[2]
          /\ tree[tree[k].children[1]].size > tree[tree[k].children[2]].size


\* C18: a scanner worker never waits for the current_path lock: while the
\* progress reporter holds it, every queued scan_dir_recursive call can still
\* run and a call that runs leaves current_path as it was; and what the
\* reporter reads is the empty initial value or the path of a directory whose
\* scan_dir_recursive call has started.
C18_WorkerNeverBlocks ==
    [][ /\ cp_locked => current_path' = current_path
        /\ (cp_locked /\ pc = "bulk") =>
              \A d \in DOMAIN fs : task[d].st = "queued" => ENABLED ScanDirRecursive(d)
        /\ reader'.cp \in {<<>>} \cup { <<d>> : d \in { x \in DOMAIN fs : task'[x].via # "none" } }
      ]_vars

\* The root's call ran while the reporter held the lock: its write was
\* skipped and current_path is still empty.
C18_Witness ==
    /\ cp_locked
    /\ reader.pc = "locked"
    /\ task[0].st \in {"forked", "done"}
    /\ current_path = <<>>

\* C19: the values of files_scanned, dirs_scanned and errors that the polling
\* reporter loads never decrease from one poll to the next, the counters
\* themselves never decrease, and when the scan has returned each counter
\* holds the number of increments the snapshot calls for.
C19_CountersMonotonicNoLoss ==
    [][ /\ reader'.files >= reader.files
        /\ reader'.dirs >= reader.dirs
        /\ reader'.errors >= reader.errors
        /\ files_scanned' >= files_scanned
        /\ dirs_scanned' >= dirs_scanned
        /\ errors' >= errors
        /\ pc' = "scanned" =>
              /\ files_scanned' = ExpectedFiles
              /\ dirs_scanned' = ExpectedDirs
              /\ errors' = ExpectedErrors
      ]_vars

\* A second poll in the middle of a scan: the reporter, which copied the
\* root's path in an earlier poll, has loaded counters that moved since the
\* root's listing was counted.
C19_Witness ==
    /\ pc = "bulk"
    /\ reader.pc = "loaded"
    /\ reader.cp = <<0>>
    /\ reader.files = 1
    /\ reader.dirs = 2
    /\ reader.errors = 1


RECURSIVE ListedUpTo(_)
\* The number of entries the calls on directories 0..k have listed so far.
ListedUpTo(k) ==
    IF k < 0 THEN 0 ELSE Len(task[k].files) + Len(task[k].dirs) + ListedUpTo(k - 1)

RECURSIVE ChildSlotsUpTo(_)
\* The number of child slots of the tree nodes 0..k.
ChildSlotsUpTo(k) ==
    IF k < 0 THEN 0
    ELSE (IF k \in DOMAIN tree THEN Len(tree[k].children) ELSE 0) + ChildSlotsUpTo(k - 1)

\* C21: the entries read_dir_bulk parsed before a failing call are dropped
\* uncounted and the fallback lists the directory from scratch: no entry of a
\* directory is counted before its read_dir_bulk has returned, every counted
\* entry is counted once and is the child of one node, and a directory whose
\* later bulk call failed ends with exactly the entries readdir+stat gives.
C21_DiscardedBeforeCounting ==
    (platform = "macos" /\ pc = "bulk") =>
        LET last == Cardinality(DOMAIN fs) - 1
            Counted == UNION { Range(task[d].files) \cup Range(task[d].dirs) : d \in DOMAIN fs }
            Children == UNION { Range(tree[n].children) : n \in DOMAIN tree }
        IN /\ Cardinality(Counted) = ListedUpTo(last)
           /\ files_scanned = Cardinality({ e \in Counted : fs[e].kind = "file" })
           /\ dirs_scanned = Cardinality({ e \in Counted : fs[e].kind = "dir" })
           /\ Cardinality(Children) = ChildSlotsUpTo(last)
           /\ rdb.pc \in {"open", "loop", "returned"} =>
                 \A e \in Counted : fs[e].parent # rdb.dir
           /\ (rdb.pc = "done" /\ rdb.good_calls >= 1 /\ rdb.ret = <<>>) =>
                 /\ task[rdb.dir].via = "fallback"
                 /\ task[rdb.dir].files = FallbackOutcome(rdb.dir).files
                 /\ task[rdb.dir].dirs = FallbackOutcome(rdb.dir).dirs

\* A directory with two files whose first bulk call returned one record and
\* whose second call failed: the fallback listed it and both files are counted.
C21_Witness ==
    /\ pc = "bulk"
    /\ rdb.pc = "done"
    /\ rdb.good_calls = 1
    /\ rdb.results # <<>>
    /\ rdb.ret = <<>>
    /\ task[rdb.dir].via = "fallback"
    /\ Len(task[rdb.dir].files) = 2
    /\ files_scanned = 2


\* C22: both parsers decode the documented layout: a record of the layout
\* that describes a listable entry comes out as that entry, with its name,
\* its kind, and its data length when that was returned for a file.
C22_ParsersFollowLayout ==
    (rec.pc = "parsed" /\ Listable(rec.fields)) =>
        rec.out = ParsedEntry(rec.fields.name, rec.fields.is_dir,
                              IF rec.fields.sized /\ ~rec.fields.is_dir
                              THEN rec.fields.size ELSE 0)

\* C23: parse_bulk_entry returns an entry or a skip for every record slice,
\* truncated ones and ones with any name offset included; it never panics.
C23_ParserNeverPanics ==
    rec.pc = "parsed" => rec.out.kind \in {"entry", "skip"}


\* C24: in one buffer the cursor moves on by entry_length after every
\* record, parsed or skipped, so the loop ends with the entries of all
\* listable records that come before the first record whose length field is
\* 0 or runs past the buffer (or before the buffer's end); the cursor is the
\* sum of the lengths passed and no slice ends outside the buffer.
C24_CursorAdvancesByEntryLength ==
    rec.pc \in {"loop", "buffer_done"} =>
        LET b == rec.buf
            start == StartOf(b)
            Ends(i) == \/ b[i].length \in {"zero", "past"}
                       \/ \E j \in 1..(i - 1) : b[j].length = "fill"
            good == { i \in 1..Len(b) : \A j \in 1..i : ~Ends(j) }
            listed == { i \in good : b[i].kind \in {"file", "dir"} }
        IN /\ rec.high <= BULK_BUF_SIZE
           /\ rec.parsed = rec.turn
           /\ rec.offset = start[rec.turn + 1]
           /\ rec.pc = "buffer_done" =>
                 /\ rec.turn = Cardinality(good)
                 /\ Len(rec.results) = Cardinality(listed)
                 /\ \A k \in 1..Len(rec.results) :
                       \E i \in listed :
                          /\ Cardinality({ j \in listed : j < i }) = k - 1
                          /\ rec.results[k] = ParsedEntry(<<98>>, b[i].kind = "dir",
                                                          IF b[i].kind = "dir" THEN 0 ELSE 2)

\* A buffer of three records, an errored one between two files: the loop
\* skipped the second and parsed the third.
C24_Witness ==
    /\ rec.pc = "buffer_done"
    /\ Len(rec.buf) = 3
    /\ rec.buf[1].kind = "file" /\ rec.buf[2].kind = "errored" /\ rec.buf[3].kind = "file"
    /\ \A i \in 1..3 : rec.buf[i].length = "ok"
    /\ Len(rec.results) = 2
    /\ rec.turn = 3


\* C25: for every table of MFT entries, whatever the parent references,
\* building the tree from the root record terminates (the build never ends
\* in a stack overflow), puts each record in at most one place of the tree,
\* and follows no self-parent edge.
C25_MftBuildTerminates ==
    /\ pc # "crashed"
    /\ (platform = "windows" /\ pc \in {"sorting", "scanned"} /\ result = <<ROOT_RECORD>>) =>
          \A r \in DOMAIN tree :
             /\ Cardinality({ pk \in { <<q, k>> : q \in DOMAIN tree, k \in 1..MaxMftRecs } :
                                /\ pk[2] <= Len(tree[pk[1]].children)
                                /\ tree[pk[1]].children[pk[2]] = r }) <= 1
             /\ \A k \in 1..Len(tree[r].children) : tree[r].children[k] # r


\* C26: in the TUI, after any sequence of move_up, move_down, enter, go_back
\* and toggle_sort from App::new(root), nav_path is a valid index path from
\* the root (current never indexes out of bounds), every node on it is a
\* directory with at least one child, and the selection is None only when
\* the root has no children and is otherwise below the number of children
\* of the current node.
C26_NavPathAndSelectionValid ==
    app.pc # "idle" =>
        /\ app.pc = "running"
        /\ current(app) # <<>>
        /\ \A k \in 2..Len(current(app)[1]) :
              /\ app.tree[current(app)[1][k]].is_dir
              /\ app.tree[current(app)[1][k]].children # <<>>
        /\ (app.selected = <<>>) <=> (app.tree[app.root].children = <<>>)
        /\ app.selected # <<>> => app.selected[1] < Len(CurrentChildren(app))

\* The App came back from a subdirectory in which the second row was
\* selected and the order was toggled, to a root with a single child.
C26_Witness ==
    /\ app.pc = "running"
    /\ app.nav_path = <<>>
    /\ ~app.sort_by_size
    /\ app.selected = <<0>>
    /\ Len(app.tree[app.root].children) = 1
    /\ Len(app.tree[app.tree[app.root].children[1]].children) = 2

\* C27: in the TUI the children of the current node are at every reachable
\* state in the order the sort_by_size flag (the title's label) names:
\* non-increasing by size when it is true, ascending by lower-cased name
\* when it is false.
C27_ListOrderedAsTitled ==
    (app.pc = "running" /\ current(app) # <<>>) =>
        \A i \in 1..(Len(CurrentChildren(app)) - 1) :
           InOrder(app.tree, IF app.sort_by_size THEN "size" ELSE "name",
                   CurrentChildren(app)[i], CurrentChildren(app)[i + 1])


\* C28: an index path that led to a node under one sort mode leads
\* get_directory_view to the same node when it is sent again with the other
\* sort mode.
C28_NavPathSurvivesSortChange ==
    view.pc = "again" =>
        /\ view.out # <<>>
        /\ view.out[1].node = view.node


\* C29: the last Progress event the reporter sends before it leaves (and
\* Complete follows) carries the final values of files_scanned,
\* dirs_scanned and errors, however the two threads interleave.
C29_LastProgressIsFinal ==
    reader.pc = "exited" =>
        /\ reader.files = files_scanned
        /\ reader.dirs = dirs_scanned
        /\ reader.errors = errors


\* C30: once start_scan has been invoked again, get_directory_view returns
\* no view of an earlier invocation's tree, and when all scans have
\* completed scan_result holds the tree of the invocation started last.
C30_LatestScanWins ==
    svc.pc = "serving" =>
        /\ \A t \in Range(svc.seen.of) : t.scan = svc.seen.at
        /\ (svc.started >= 2 /\ \A k \in 1..svc.started : svc.thread[k] = "complete") =>
              svc.scan_result = <<TreeOf(svc.started)>>

====
